---- MODULE Spec2Model ----
(***************************************************************************)
(* The semantic cache of echo: the in-memory store (MockVectorDB), the     *)
(* ledger (ChatHistory), the S3 synchronisation task and the chat request  *)
(* path, as a state machine.                                               *)
(*                                                                         *)
(* Texts (questions, answers) are sequences of one-character strings, so   *)
(* that strings.TrimSpace and utf8.RuneCountInString are computed and not  *)
(* assumed.  Timestamps are readings of the variable now.                  *)
(***************************************************************************)
EXTENDS Integers, Sequences, FiniteSets, TLC

VARIABLES
    MockVectorDB,      \* []VectorEntry, the store
    ChatHistory,       \* []HistoryItem, the ledger
    s3Uploading,       \* SyncStatus.uploading
    hasLastS3Upload,   \* lastUploadAt is present
    lastS3UploadAt,
    hasLastS3Sync,     \* lastDownloadAt is present
    lastS3DownloadAt,
    s3Enabled,         \* s3Client != nil && s3BucketName != ""
    remote,            \* the object cache.json in the bucket
    syncPc,            \* position of main's start-up sync, then of the sync goroutine
    inTick,            \* the running downloadAndMergeFromS3 was called by the ticker loop
    remoteEntries,     \* downloadAndMergeFromS3: the decoded records
    payload,           \* uploadToS3: the snapshot copy of the store
    now,               \* the clock read by time.Now()
    remoteWrites,      \* number of writes to the object by other writers so far
    dlOutcome,         \* history: how downloadAndMergeFromS3 ended in the running tick
    lastMerged,        \* history: records of the latest merge, if no insert came after it
    sameAgain,         \* history: the latest merge applied the records of the merge before
                       \* it, and no insert came between the two
    putOk,             \* history: some PutObject of this process has succeeded
    req,               \* per handler goroutine: the position and locals of handleChat
    served,            \* number of requests received so far
    call,              \* the latest direct application of a function of the matcher or
                       \* of the savings accountant: arguments and result
    dbMutex,           \* sync.RWMutex of the store and the ledger: who holds it
    statusMutex,       \* sync.RWMutex of the sync status: who holds it
    mainPc,            \* position of main, where it runs beside the sync goroutine
    instances          \* two processes on one bucket: store and sync position of each

vars == <<MockVectorDB, ChatHistory, s3Uploading, hasLastS3Upload, lastS3UploadAt,
          hasLastS3Sync, lastS3DownloadAt, s3Enabled, remote, syncPc, inTick,
          remoteEntries, payload, now, remoteWrites, dlOutcome, lastMerged, sameAgain,
          putOk, req, served, call, dbMutex, statusMutex, mainPc, instances>>

statusVars == <<s3Uploading, hasLastS3Upload, lastS3UploadAt, hasLastS3Sync, lastS3DownloadAt>>
mergeHist == <<lastMerged, sameAgain>>
histVars == <<dlOutcome, mergeHist, putOk>>
reqVars == <<req, served>>
syncVars == <<s3Enabled, syncPc, inTick, remoteEntries, payload>>
lockVars == <<dbMutex, statusMutex>>

----
\* Bounds of the model: the last reading of the clock, the writes of other
\* writers to the object, the requests received.
MaxClock == 1
MaxRemoteWrites == 1
MaxRequests == 1
\* the requests served when S3 is disabled, and the length of the stores the
\* matcher is applied to directly
MaxLocalRequests == 3
MaxStoreLen == 2
\* the length of the ledgers handleCacheStats is applied to directly
MaxLedgerLen == 3
\* the length of the texts the savings accountant is applied to directly
MaxTextLen == 9

----
\* Texts.

IsSpace(c) == c \in {" ", "\t", "\n", "\r"}

RECURSIVE TrimLeft(_)
TrimLeft(s) ==
    IF s = <<>> THEN <<>>
    ELSE IF IsSpace(Head(s)) THEN TrimLeft(Tail(s)) ELSE s

RECURSIVE TrimRight(_)
TrimRight(s) ==
    IF s = <<>> THEN <<>>
    ELSE IF IsSpace(s[Len(s)]) THEN TrimRight(SubSeq(s, 1, Len(s) - 1)) ELSE s

TrimSpace(s) == TrimRight(TrimLeft(s))

----
\* Constants of the program.

cacheSourceLocal == "LOCAL"
cacheSourceS3 == "S3"

\* A model identifier is a text whose non-space part is one symbol.
FlashLite == <<"gemini-2.5-flash-lite">>
Flash == <<"gemini-2.5-flash">>

\* the zero time.Time; readings of the clock are >= 0
ZeroTime == -1

----
\* Scores.  A similarity is kept exactly, as the signed square n/d of the
\* cosine (d > 0): the cosine is sgn(n) * sqrt(|n| / d).
ZeroScore == [n |-> 0, d |-> 1]

\* type VectorEntry
VectorEntry(vector, answer, question, createdAt, similarity, source) ==
    [Vector |-> vector, Answer |-> answer, Question |-> question,
     CreatedAt |-> createdAt, Similarity |-> similarity, Source |-> source]

\* VectorEntry{}
ZeroEntry == VectorEntry(<<>>, <<>>, <<>>, ZeroTime, ZeroScore, "")

----
\* The wire format.  A JSON object is a function from member names to
\* values; the object in the bucket is absent or a body of some kind.

Absent == [kind |-> "absent", items |-> <<>>]
EmptyBody == [kind |-> "empty", items |-> <<>>]      \* zero bytes
Garbage == [kind |-> "garbage", items |-> <<>>]      \* bytes that are no JSON array of records
JsonArray(items) == [kind |-> "json", items |-> items]

\* json.MarshalIndent of one VectorEntry: the struct has no tags, so the
\* members carry the Go field names, Similarity included.
MarshalEntry(e) ==
    [Vector |-> e.Vector, Answer |-> e.Answer, Question |-> e.Question,
     CreatedAt |-> e.CreatedAt, Similarity |-> e.Similarity, Source |-> e.Source]

MarshalIndent(entries) == JsonArray([i \in DOMAIN entries |-> MarshalEntry(entries[i])])

\* encoding/json matches a member to a field by exact name, else ignoring
\* case; a field with no member keeps its zero value.
JsonField(obj, goName, lowerName, zero) ==
    IF goName \in DOMAIN obj THEN obj[goName]
    ELSE IF lowerName \in DOMAIN obj THEN obj[lowerName]
    ELSE zero

UnmarshalEntry(obj) ==
    VectorEntry(JsonField(obj, "Vector", "vector", <<>>),
                JsonField(obj, "Answer", "answer", <<>>),
                JsonField(obj, "Question", "question", <<>>),
                JsonField(obj, "CreatedAt", "createdAt", ZeroTime),
                JsonField(obj, "Similarity", "similarity", ZeroScore),
                JsonField(obj, "Source", "source", ""))

Unmarshal(body) == [i \in DOMAIN body.items |-> UnmarshalEntry(body.items[i])]

----
\* downloadAndMergeFromS3, the merge under dbMutex.

\* mutant: the key is the question as received, not trimmed
questionKey_Untrimmed(entry) == entry.Question

questionKey(entry) == TrimSpace(entry.Question)

\* mutant: the map starts empty, the store's questions are not entered
existingByQuestion_Empty(db) == {}

\* mutant: only the entries that came from S3 are entered in the map
existingByQuestion_RemoteOnly(db) ==
    {questionKey(db[i]) : i \in {k \in DOMAIN db : db[k].Source = cacheSourceS3}} \ {<<>>}

\* the map existingByQuestion built from the store
existingByQuestion(db) ==
    {questionKey(db[i]) : i \in DOMAIN db} \ {<<>>}

\* mutant: the record keeps the source it carried
tagRemote_KeepsSource(entry) == entry

tagRemote(entry) == [entry EXCEPT !.Source = cacheSourceS3]

\* mutant: a record whose question the store holds replaces the stored entry
RECURSIVE mergeLoop_LastWins(_, _, _, _)
mergeLoop_LastWins(db, existing, entries, i) ==
    IF i > Len(entries) THEN db
    ELSE LET entry == entries[i]
             key == questionKey(entry)
         IN  IF key = <<>> THEN mergeLoop_LastWins(db, existing, entries, i + 1)
             ELSE IF key \in existing
                  THEN mergeLoop_LastWins(
                          [k \in DOMAIN db |->
                             IF questionKey(db[k]) = key THEN tagRemote(entry) ELSE db[k]],
                          existing, entries, i + 1)
             ELSE mergeLoop_LastWins(Append(db, tagRemote(entry)), existing \cup {key},
                                     entries, i + 1)

\* mutant: a record with a blank question is merged like any other
RECURSIVE mergeLoop_KeepsBlank(_, _, _, _)
mergeLoop_KeepsBlank(db, existing, entries, i) ==
    IF i > Len(entries) THEN db
    ELSE LET entry == entries[i]
             key == questionKey(entry)
         IN  IF key \in existing THEN mergeLoop_KeepsBlank(db, existing, entries, i + 1)
             ELSE mergeLoop_KeepsBlank(Append(db, tagRemote(entry)), existing \cup {key},
                                       entries, i + 1)

\* the loop over remoteEntries, from index i on
RECURSIVE mergeLoop(_, _, _, _)
mergeLoop(db, existing, entries, i) ==
    IF i > Len(entries) THEN db
    ELSE LET entry == entries[i]
             key == questionKey(entry)
         IN  IF key = <<>> THEN mergeLoop(db, existing, entries, i + 1)
             ELSE IF key \in existing THEN mergeLoop(db, existing, entries, i + 1)
             ELSE mergeLoop(Append(db, tagRemote(entry)), existing \cup {key},
                            entries, i + 1)

\* mutant: the fresh remote entries are put in front of the store
mergeEntries_RemoteFirst(db, entries) ==
    LET merged == mergeLoop(db, existingByQuestion(db), entries, 1)
    IN  SubSeq(merged, Len(db) + 1, Len(merged)) \o db

mergeEntries(db, entries) == mergeLoop(db, existingByQuestion(db), entries, 1)

----
\* The bodies other writers of the bucket may leave under the key.
X == <<"x">>
Y == <<"y">>
AnsA == <<"a">>
AnsB == <<"b", "b", "b", "b", "b">>

\* A body written by another producer, in the lower-case wire format: two
\* records whose questions differ only in white space, one with a blank
\* question, one whose question a local request also asks, with source
\* tags of the producer's choosing and a stored similarity.
Foreign ==
    JsonArray(<< [question |-> Y, answer |-> AnsB, vector |-> <<0, 1>>,
                  createdAt |-> 0, source |-> "LOCAL"],
                 [question |-> <<" ", "y">>, answer |-> AnsA, vector |-> <<0, 1>>,
                  createdAt |-> 0, source |-> "S3"],
                 [question |-> <<" ">>, answer |-> AnsA, vector |-> <<1, 0>>,
                  createdAt |-> 0, source |-> "S3"],
                 [question |-> <<"x", " ">>, answer |-> AnsB, vector |-> <<1, 1>>,
                  createdAt |-> 0, similarity |-> [n |-> 1, d |-> 1]] >>)

RemoteBodies == {EmptyBody, Garbage, Foreign}

----
\* The sync task: main's start-up download, then the ticker loop.

DownloadPcs == {"dl_get", "dl_merge"}
UploadPcs == {"up_begin", "up_snapshot", "up_put", "up_mark", "up_exit"}

\* where control goes when downloadAndMergeFromS3 returns
AfterDownload == IF inTick THEN "check" ELSE "wait"

\* time.Now()
Now == now

\* setUploading
setUploading(uploading) ==
    /\ s3Uploading' = uploading
    /\ UNCHANGED <<hasLastS3Upload, lastS3UploadAt, hasLastS3Sync, lastS3DownloadAt>>

\* markS3UploadCompleted
markS3UploadCompleted ==
    /\ lastS3UploadAt' = Now
    /\ hasLastS3Upload' = TRUE
    /\ UNCHANGED <<s3Uploading, hasLastS3Sync, lastS3DownloadAt>>

\* markS3DownloadCompleted
markS3DownloadCompleted ==
    /\ lastS3DownloadAt' = Now
    /\ hasLastS3Sync' = TRUE
    /\ UNCHANGED <<s3Uploading, hasLastS3Upload, lastS3UploadAt>>

\* mutant: main starts the sync although initS3Client failed
InitS3Fails_StartsSync ==
    /\ syncPc = "init"
    /\ s3Enabled' = FALSE
    /\ syncPc' = "dl_get"
    /\ UNCHANGED <<MockVectorDB, ChatHistory, statusVars, remote, inTick,
                   remoteEntries, payload, now, remoteWrites, histVars, reqVars, call, lockVars, mainPc, instances>>

\* main: initS3Client fails, S3 stays disabled and the server starts.
InitS3Fails ==
    /\ syncPc = "init"
    /\ s3Enabled' = FALSE
    /\ syncPc' = "disabled"
    /\ UNCHANGED <<MockVectorDB, ChatHistory, statusVars, remote, inTick,
                   remoteEntries, payload, now, remoteWrites, histVars, reqVars, call, lockVars, mainPc, instances>>

\* main: initS3Client succeeds and main calls downloadAndMergeFromS3.
InitS3Ok ==
    /\ syncPc = "init"
    /\ s3Enabled' = TRUE
    /\ syncPc' = "dl_get"
    /\ inTick' = FALSE
    /\ dlOutcome' = "running"
    /\ UNCHANGED <<MockVectorDB, ChatHistory, statusVars, remote,
                   remoteEntries, payload, now, remoteWrites, mergeHist, putOk, reqVars, call, lockVars, mainPc, instances>>

\* startBackgroundSync: the ticker fires and the loop body starts with
\* downloadAndMergeFromS3.  The clock counts ticker periods, up to MaxClock.
Tick ==
    /\ syncPc = "wait"
    /\ s3Enabled
    /\ syncPc' = "dl_get"
    /\ inTick' = TRUE
    /\ dlOutcome' = "running"
    /\ now' = IF now < MaxClock THEN now + 1 ELSE now
    /\ UNCHANGED <<MockVectorDB, ChatHistory, statusVars, s3Enabled, remote,
                   remoteEntries, payload, remoteWrites, mergeHist, putOk, reqVars, call, lockVars, mainPc, instances>>

\* mutant: every return path records the download as completed
DownloadReturns_Marks(outcome) ==
    /\ syncPc' = AfterDownload
    /\ dlOutcome' = outcome
    /\ markS3DownloadCompleted
    /\ UNCHANGED <<MockVectorDB, ChatHistory, s3Enabled, remote, inTick,
                   remoteEntries, payload, now, remoteWrites, mergeHist, putOk, reqVars, call, lockVars, mainPc, instances>>

\* downloadAndMergeFromS3 returns without merging, with the given outcome
DownloadReturns(outcome) ==
    /\ syncPc' = AfterDownload
    /\ dlOutcome' = outcome
    /\ UNCHANGED <<MockVectorDB, ChatHistory, statusVars, s3Enabled, remote, inTick,
                   remoteEntries, payload, now, remoteWrites, mergeHist, putOk, reqVars, call, lockVars, mainPc, instances>>

\* GetObject answers NoSuchKey / NotFound.
GetNotFound ==
    /\ syncPc = "dl_get"
    /\ remote = Absent
    /\ DownloadReturns("notfound")

\* GetObject fails otherwise (network, timeout, access).
GetFails ==
    /\ syncPc = "dl_get"
    /\ DownloadReturns("failed")

\* io.ReadAll of the body fails.
ReadFails ==
    /\ syncPc = "dl_get"
    /\ remote # Absent
    /\ DownloadReturns("failed")

\* len(body) == 0
BodyEmpty ==
    /\ syncPc = "dl_get"
    /\ remote = EmptyBody
    /\ DownloadReturns("emptybody")

\* json.Unmarshal fails.
DecodeFails ==
    /\ syncPc = "dl_get"
    /\ remote = Garbage
    /\ DownloadReturns("failed")

\* The body is fetched, read and decoded; the task goes on to lock dbMutex.
Decoded ==
    /\ syncPc = "dl_get"
    /\ remote.kind = "json"
    /\ remoteEntries' = Unmarshal(remote)
    /\ syncPc' = "dl_merge"
    /\ UNCHANGED <<MockVectorDB, ChatHistory, statusVars, s3Enabled, remote, inTick,
                   payload, now, remoteWrites, histVars, reqVars, call, lockVars, mainPc, instances>>

\* The merge under dbMutex.Lock, markS3DownloadCompleted, and the return.
Merge ==
    /\ syncPc = "dl_merge"
    /\ MockVectorDB' = mergeEntries(MockVectorDB, remoteEntries)
    /\ markS3DownloadCompleted
    /\ remoteEntries' = <<>>
    /\ syncPc' = AfterDownload
    /\ dlOutcome' = "merged"
    /\ lastMerged' = <<remoteEntries>>
    /\ sameAgain' = (lastMerged = <<remoteEntries>>)
    /\ UNCHANGED <<ChatHistory, s3Enabled, remote, inTick, payload, now,
                   remoteWrites, putOk, reqVars, call, lockVars, mainPc, instances>>

\* mutant: the loop uploads whatever the store holds
CheckHasData_Always ==
    /\ syncPc = "check"
    /\ syncPc' = "up_begin"
    /\ UNCHANGED <<MockVectorDB, ChatHistory, statusVars, s3Enabled, remote, inTick,
                   remoteEntries, payload, now, remoteWrites, histVars, reqVars, call, lockVars, mainPc, instances>>

\* The loop's check of len(MockVectorDB) > 0 under dbMutex.RLock.
CheckHasData ==
    /\ syncPc = "check"
    /\ syncPc' = IF Len(MockVectorDB) > 0 THEN "up_begin" ELSE "wait"
    /\ dlOutcome' = IF Len(MockVectorDB) > 0 THEN dlOutcome ELSE "none"
    /\ UNCHANGED <<MockVectorDB, ChatHistory, statusVars, s3Enabled, remote, inTick,
                   remoteEntries, payload, now, remoteWrites, mergeHist, putOk, reqVars, call, lockVars, mainPc, instances>>

\* uploadToS3: setUploading(true)
UploadBegin ==
    /\ syncPc = "up_begin"
    /\ setUploading(TRUE)
    /\ syncPc' = "up_snapshot"
    /\ UNCHANGED <<MockVectorDB, ChatHistory, s3Enabled, remote, inTick,
                   remoteEntries, payload, now, remoteWrites, histVars, reqVars, call, lockVars, mainPc, instances>>

\* mutant: the snapshot holds the LOCAL entries only
UploadSnapshot_LocalOnly ==
    /\ syncPc = "up_snapshot"
    /\ payload' = SelectSeq(MockVectorDB, LAMBDA e : e.Source = cacheSourceLocal)
    /\ syncPc' = "up_put"
    /\ UNCHANGED <<MockVectorDB, ChatHistory, statusVars, s3Enabled, remote, inTick,
                   remoteEntries, now, remoteWrites, histVars, reqVars, call, lockVars, mainPc, instances>>

\* uploadToS3: the copy of the store under dbMutex.RLock; json.MarshalIndent
\* of the copy succeeds and PutObject is sent
UploadSnapshot ==
    /\ syncPc = "up_snapshot"
    /\ payload' = MockVectorDB
    /\ syncPc' = "up_put"
    /\ UNCHANGED <<MockVectorDB, ChatHistory, statusVars, s3Enabled, remote, inTick,
                   remoteEntries, now, remoteWrites, histVars, reqVars, call, lockVars, mainPc, instances>>

\* mutant: the failure path returns without the deferred setUploading(false)
MarshalFails_SkipsDefer ==
    /\ syncPc = "up_snapshot"
    /\ payload' = <<>>
    /\ syncPc' = "wait"
    /\ dlOutcome' = "none"
    /\ UNCHANGED <<MockVectorDB, ChatHistory, statusVars, s3Enabled, remote, inTick,
                   remoteEntries, now, remoteWrites, mergeHist, putOk, reqVars, call, lockVars, mainPc, instances>>

\* uploadToS3: the copy of the store, and json.MarshalIndent of it fails
MarshalFails ==
    /\ syncPc = "up_snapshot"
    /\ payload' = MockVectorDB
    /\ syncPc' = "up_exit"
    /\ UNCHANGED <<MockVectorDB, ChatHistory, statusVars, s3Enabled, remote, inTick,
                   remoteEntries, now, remoteWrites, histVars, reqVars, call, lockVars, mainPc, instances>>

\* uploadToS3: PutObject succeeds, the object is replaced by the body
PutOk ==
    /\ syncPc = "up_put"
    /\ remote' = MarshalIndent(payload)
    /\ syncPc' = "up_mark"
    /\ putOk' = TRUE
    /\ UNCHANGED <<MockVectorDB, ChatHistory, statusVars, s3Enabled, inTick,
                   remoteEntries, payload, now, remoteWrites, dlOutcome, mergeHist, reqVars, call, lockVars, mainPc, instances>>

\* mutant: the failure path falls through to markS3UploadCompleted
PutFails_Marks ==
    /\ syncPc = "up_put"
    /\ syncPc' = "up_mark"
    /\ UNCHANGED <<MockVectorDB, ChatHistory, statusVars, s3Enabled, remote, inTick,
                   remoteEntries, payload, now, remoteWrites, histVars, reqVars, call, lockVars, mainPc, instances>>

\* uploadToS3: PutObject fails or times out
PutFails ==
    /\ syncPc = "up_put"
    /\ syncPc' = "up_exit"
    /\ UNCHANGED <<MockVectorDB, ChatHistory, statusVars, s3Enabled, remote, inTick,
                   remoteEntries, payload, now, remoteWrites, histVars, reqVars, call, lockVars, mainPc, instances>>

\* uploadToS3: markS3UploadCompleted
UploadMark ==
    /\ syncPc = "up_mark"
    /\ markS3UploadCompleted
    /\ syncPc' = "up_exit"
    /\ UNCHANGED <<MockVectorDB, ChatHistory, s3Enabled, remote, inTick,
                   remoteEntries, payload, now, remoteWrites, histVars, reqVars, call, lockVars, mainPc, instances>>

\* uploadToS3: the deferred setUploading(false), and the return to the loop
UploadExit ==
    /\ syncPc = "up_exit"
    /\ setUploading(FALSE)
    /\ payload' = <<>>
    /\ syncPc' = "wait"
    /\ dlOutcome' = "none"
    /\ UNCHANGED <<MockVectorDB, ChatHistory, s3Enabled, remote, inTick,
                   remoteEntries, now, remoteWrites, mergeHist, putOk, reqVars, call, lockVars, mainPc, instances>>

\* Another writer of the bucket replaces or deletes the object.
RemoteWrite ==
    /\ remoteWrites < MaxRemoteWrites
    /\ \E b \in RemoteBodies :
          /\ b # remote
          /\ remote' = b
    /\ remoteWrites' = remoteWrites + 1
    /\ UNCHANGED <<MockVectorDB, ChatHistory, statusVars, s3Enabled, syncPc, inTick,
                   remoteEntries, payload, now, histVars, reqVars, call, lockVars, mainPc, instances>>

----
\* The similarity matcher and the store's lookup and insert.

RECURSIVE Dot(_, _)
Dot(a, b) == IF a = <<>> THEN 0 ELSE Head(a) * Head(b) + Dot(Tail(a), Tail(b))

Sgn(x) == IF x > 0 THEN 1 ELSE IF x < 0 THEN -1 ELSE 0

\* cosineSimilarity without the test of the norms: 0/0
cosineSimilarity_NoNormCheck(a, b) ==
    IF Len(a) = 0 \/ Len(b) = 0 \/ Len(a) # Len(b) THEN ZeroScore
    ELSE LET dotProduct == Dot(a, b)
         IN  [n |-> Sgn(dotProduct) * dotProduct * dotProduct, d |-> Dot(a, a) * Dot(b, b)]

\* cosineSimilarity, in exact arithmetic (the rounding of float64 is not modelled)
cosineSimilarity(a, b) ==
    IF Len(a) = 0 \/ Len(b) = 0 \/ Len(a) # Len(b) THEN ZeroScore
    ELSE LET dotProduct == Dot(a, b)
             normA == Dot(a, a)
             normB == Dot(b, b)
         IN  IF normA = 0 \/ normB = 0 THEN ZeroScore
             ELSE [n |-> Sgn(dotProduct) * dotProduct * dotProduct, d |-> normA * normB]

\* score >= bestScore
ScoreGreater_OrEqual(score, bestScore) == score.n * bestScore.d >= bestScore.n * score.d

\* score > bestScore
ScoreGreater(score, bestScore) == score.n * bestScore.d > bestScore.n * score.d

\* bestScore > similarityThreshold
AtLeastThreshold_Strict(bestScore) == bestScore.n * 100 > 81 * bestScore.d

\* bestScore >= similarityThreshold, 0.90: the square of 0.90 is 81/100
AtLeastThreshold(bestScore) == bestScore.n * 100 >= 81 * bestScore.d

\* findBestMatch: the loop over the store from index i on
RECURSIVE bestLoop(_, _, _, _, _)
bestLoop(db, vector, i, bestScore, best) ==
    IF i > Len(db) THEN [score |-> bestScore, entry |-> best]
    ELSE LET score == cosineSimilarity(vector, db[i].Vector)
         IN  IF ScoreGreater(score, bestScore)
             THEN bestLoop(db, vector, i + 1, score, db[i])
             ELSE bestLoop(db, vector, i + 1, bestScore, best)

\* findBestMatch
findBestMatch(db, vector) ==
    LET r == bestLoop(db, vector, 1, ZeroScore, ZeroEntry)
    IN  IF AtLeastThreshold(r.score)
        THEN [entry |-> [r.entry EXCEPT !.Similarity = r.score], ok |-> TRUE]
        ELSE [entry |-> ZeroEntry, ok |-> FALSE]

\* mutant: the question is stored as the answer and the answer as the question
saveToMockVectorDB_Swapped(db, vector, answer, question) ==
    Append(db, VectorEntry(vector, question, answer, Now, ZeroScore, cacheSourceLocal))

\* saveToMockVectorDB
saveToMockVectorDB(db, vector, answer, question) ==
    Append(db, VectorEntry(vector, answer, question, Now, ZeroScore, cacheSourceLocal))

----
\* The savings accountant and the ledger.

\* mutant: the quotient is rounded down
estimateTokens_Floor(text) ==
    LET tokens == Len(text) \div 4
    IN  IF tokens < 1 THEN 1 ELSE tokens

\* estimateTokens: ceil(runeCount / 4), at least 1
estimateTokens(text) ==
    LET tokens == (Len(text) + 3) \div 4
    IN  IF tokens < 1 THEN 1 ELSE tokens

\* modelKWhPer1KTokens and estimatedKWhPer1KTokens, in units of 10^-5 kWh
modelKWhPer1KTokens == (FlashLite :> 20) @@ (Flash :> 35)
estimatedKWhPer1KTokens == 35
gridCO2gPerKWh == 475

\* mutant: a model without a constant of its own costs nothing
estimateSavings_NoDefault(question, answer, model) ==
    LET tokens == estimateTokens(question) + estimateTokens(answer)
        kWhPer1K == IF model \in DOMAIN modelKWhPer1KTokens
                    THEN modelKWhPer1KTokens[model]
                    ELSE 0
    IN  [tokens |-> tokens, energyWh |-> tokens * kWhPer1K,
         co2g |-> tokens * kWhPer1K * gridCO2gPerKWh]

\* estimateSavings: tokens, energy in 10^-5 Wh, CO2 in 10^-8 g
estimateSavings(question, answer, model) ==
    LET tokens == estimateTokens(question) + estimateTokens(answer)
        kWhPer1K == IF model \in DOMAIN modelKWhPer1KTokens
                       /\ modelKWhPer1KTokens[model] > 0
                    THEN modelKWhPer1KTokens[model]
                    ELSE estimatedKWhPer1KTokens
    IN  [tokens |-> tokens, energyWh |-> tokens * kWhPer1K,
         co2g |-> tokens * kWhPer1K * gridCO2gPerKWh]

\* mutant: the savings are estimated for unsaved items too
appendHistory_AlwaysEstimates(history, question, answer, saved, source, model) ==
    LET s == estimateSavings(question, answer, model)
    IN  Append(history,
               [Question |-> question, Answer |-> answer, Timestamp |-> Now,
                Saved |-> saved, Source |-> source, Model |-> model,
                Tokens |-> s.tokens, EnergyWh |-> s.energyWh, CO2g |-> s.co2g])

\* mutant: the new item is put in front of the ledger
appendHistory_Prepend(history, question, answer, saved, source, model) ==
    <<[Question |-> question, Answer |-> answer, Timestamp |-> Now,
       Saved |-> saved, Source |-> source, Model |-> model,
       Tokens |-> 0, EnergyWh |-> 0, CO2g |-> 0]>> \o history

\* appendHistory
appendHistory(history, question, answer, saved, source, model) ==
    LET s == IF saved THEN estimateSavings(question, answer, model)
             ELSE [tokens |-> 0, energyWh |-> 0, co2g |-> 0]
    IN  Append(history,
               [Question |-> question, Answer |-> answer, Timestamp |-> Now,
                Saved |-> saved, Source |-> source, Model |-> model,
                Tokens |-> s.tokens, EnergyWh |-> s.energyWh, CO2g |-> s.co2g])

\* mutant: the requested identifier is trimmed and passed on
resolveGeminiModel_PassThrough(requested) == TrimSpace(requested)

\* resolveGeminiModel
resolveGeminiModel(requested) ==
    IF TrimSpace(requested) \in {FlashLite, Flash} THEN TrimSpace(requested)
    ELSE FlashLite

----
\* The chat request path, handleChat, one goroutine per request.

Handlers == {1, 2}

\* The requests clients send: text, vector, model.
Requests ==
    { [text |-> X, vector |-> <<1, 0>>, model |-> <<>>],
      [text |-> X, vector |-> <<0, 1>>, model |-> <<" ", Flash[1]>>],
      [text |-> <<" ">>, vector |-> <<1, 0>>, model |-> <<>>],
      [text |-> Y, vector |-> <<>>, model |-> <<>>] }
UpstreamAnswers == {AnsA}

NoResponse == [status |-> 0, answer |-> <<>>, source |-> ""]
\* type EnvironmentalStats
NoMetrics == [CacheHits |-> 0, LocalCacheHits |-> 0, S3CacheHits |-> 0,
              EstimatedTokensSaved |-> 0, EnergySavedWh |-> 0, CO2SavedG |-> 0]

\* a *time.Time that is nil
NilTime == [present |-> FALSE, at |-> ZeroTime]

\* type CacheStatsResponse, without its constants
NoStats == [Uploading |-> FALSE, LastUploadAt |-> NilTime, LastDownloadAt |-> NilTime,
            Metrics |-> NoMetrics, LocalRamCache |-> <<>>, S3CacheUsed |-> <<>>]

IdleReq == [pc |-> "idle", route |-> "", text |-> <<>>, vector |-> <<>>, model |-> <<>>,
            modelName |-> <<>>, match |-> ZeroEntry, answer |-> <<>>,
            resp |-> NoResponse, history |-> <<>>, entries |-> <<>>, stats |-> NoStats]

\* handleChat has answered: its locals are gone, the response stays visible
Done(resp) == [IdleReq EXCEPT !.pc = "done", !.route = "/chat", !.resp = resp]

Free(h) == req[h].pc \in {"idle", "done"}

\* http.ListenAndServe is reached: main's start-up sync is over
Listening == syncPc = "disabled" \/ (s3Enabled /\ (inTick \/ syncPc = "wait"))

\* the request path, had it cleared the uploading flag
ReqFrame_ClearsUploading ==
    /\ s3Uploading' = FALSE
    /\ UNCHANGED <<hasLastS3Upload, lastS3UploadAt, hasLastS3Sync, lastS3DownloadAt,
                   syncVars, remote, now, remoteWrites, dlOutcome, putOk, call, lockVars, mainPc, instances>>

ReqFrame ==
    UNCHANGED <<statusVars, syncVars, remote, now, remoteWrites, dlOutcome, putOk, call,
                lockVars, mainPc, instances>>

\* handleChat up to the lookup: the request is decoded and validated (empty
\* text or vector is answered 400), the model resolved, and findBestMatch
\* run under dbMutex.RLock.  The request is served by the first free goroutine.
ReceiveFrom(h, maxRequests, requests) ==
    /\ Listening
    /\ Free(h)
    /\ \A g \in Handlers : g < h => ~Free(g)
    /\ served < maxRequests
    /\ served' = served + 1
    /\ \E r \in requests :
          req' = [req EXCEPT ![h] =
                    IF TrimSpace(r.text) = <<>> \/ Len(r.vector) = 0
                    THEN Done([NoResponse EXCEPT !.status = 400])
                    ELSE LET m == findBestMatch(MockVectorDB, r.vector)
                         IN  [IdleReq EXCEPT !.pc = IF m.ok THEN "hit" ELSE "upstream",
                                             !.route = "/chat",
                                             !.text = r.text, !.vector = r.vector,
                                             !.model = r.model,
                                             !.modelName = resolveGeminiModel(r.model),
                                             !.match = m.entry]]
    /\ ReqFrame
    /\ UNCHANGED <<MockVectorDB, ChatHistory, mergeHist>>

ReceiveUpTo(h, maxRequests) == ReceiveFrom(h, maxRequests, Requests)

Receive(h) == ReceiveUpTo(h, MaxRequests)

\* mutant: the ledger records the source of the response, not of the entry
HitAppend_CacheSource(h) ==
    /\ req[h].pc = "hit"
    /\ ChatHistory' = appendHistory(ChatHistory, req[h].text, req[h].match.Answer, TRUE,
                                    "CACHE", req[h].modelName)
    /\ req' = [req EXCEPT ![h] = Done([status |-> 200, answer |-> req[h].match.Answer,
                                        source |-> "CACHE"])]
    /\ ReqFrame
    /\ UNCHANGED <<MockVectorDB, mergeHist, served>>

\* mutant: a hit inserts the matched entry again
HitAppend_Reinserts(h) ==
    /\ req[h].pc = "hit"
    /\ ChatHistory' = appendHistory(ChatHistory, req[h].text, req[h].match.Answer, TRUE,
                                    req[h].match.Source, req[h].modelName)
    /\ MockVectorDB' = Append(MockVectorDB, req[h].match)
    /\ req' = [req EXCEPT ![h] = Done([status |-> 200, answer |-> req[h].match.Answer,
                                        source |-> "CACHE"])]
    /\ ReqFrame
    /\ UNCHANGED <<mergeHist, served>>

\* Cache hit: appendHistory(saved = true) and the CACHE response.
HitAppend(h) ==
    /\ req[h].pc = "hit"
    /\ LET match == req[h].match
           source == IF match.Source = "" THEN cacheSourceLocal ELSE match.Source
       IN  ChatHistory' = appendHistory(ChatHistory, req[h].text, match.Answer, TRUE,
                                        source, req[h].modelName)
    /\ req' = [req EXCEPT ![h] = Done([status |-> 200, answer |-> req[h].match.Answer,
                                        source |-> "CACHE"])]
    /\ ReqFrame
    /\ UNCHANGED <<MockVectorDB, mergeHist, served>>

\* callGemini returns a non-empty answer, and saveToMockVectorDB inserts it
\* under dbMutex.Lock.
UpstreamOk(h) ==
    /\ req[h].pc = "upstream"
    /\ \E answer \in UpstreamAnswers :
          /\ MockVectorDB' = saveToMockVectorDB(MockVectorDB, req[h].vector, answer,
                                                req[h].text)
          /\ req' = [req EXCEPT ![h].pc = "history", ![h].answer = answer]
    /\ lastMerged' = <<>>
    /\ sameAgain' = FALSE
    /\ ReqFrame
    /\ UNCHANGED <<ChatHistory, served>>

\* mutant: the failed request is recorded in the ledger
UpstreamFails_Logs(h) ==
    /\ req[h].pc = "upstream"
    /\ ChatHistory' = appendHistory(ChatHistory, req[h].text, <<>>, FALSE, "CLOUD",
                                    req[h].modelName)
    /\ req' = [req EXCEPT ![h] = Done([NoResponse EXCEPT !.status = 502])]
    /\ ReqFrame
    /\ UNCHANGED <<MockVectorDB, mergeHist, served>>

\* callGemini fails, times out or returns an empty answer: 502.
UpstreamFails(h) ==
    /\ req[h].pc = "upstream"
    /\ req' = [req EXCEPT ![h] = Done([NoResponse EXCEPT !.status = 502])]
    /\ ReqFrame
    /\ UNCHANGED <<MockVectorDB, ChatHistory, mergeHist, served>>

\* Cache miss: appendHistory(saved = false) and the CLOUD response.
MissAppend(h) ==
    /\ req[h].pc = "history"
    /\ ChatHistory' = appendHistory(ChatHistory, req[h].text, req[h].answer, FALSE,
                                    "CLOUD", req[h].modelName)
    /\ req' = [req EXCEPT ![h] = Done([status |-> 200, answer |-> req[h].answer,
                                        source |-> "CLOUD"])]
    /\ ReqFrame
    /\ UNCHANGED <<MockVectorDB, mergeHist, served>>

\* mutant: the items are copied in the order of the ledger
reverseLoop_Forward(items, i, history) == items

\* handleHistory: the loop from the last item of ChatHistory down to the first
RECURSIVE reverseLoop(_, _, _)
reverseLoop(items, i, history) ==
    IF i < 1 THEN history
    ELSE reverseLoop(items, i - 1, Append(history, items[i]))

\* handleHistory, a GET of /history: the copy is built and written while
\* dbMutex.RLock is held, so the handler is one step.
handleHistoryUpTo(h, maxRequests) ==
    /\ Listening
    /\ Free(h)
    /\ \A g \in Handlers : g < h => ~Free(g)
    /\ served < maxRequests
    /\ served' = served + 1
    /\ req' = [req EXCEPT ![h] =
                 [IdleReq EXCEPT !.pc = "done", !.route = "/history",
                                 !.resp = [NoResponse EXCEPT !.status = 200],
                                 !.history = reverseLoop(ChatHistory, Len(ChatHistory), <<>>)]]
    /\ ReqFrame
    /\ UNCHANGED <<MockVectorDB, ChatHistory, mergeHist>>

handleHistory(h) == handleHistoryUpTo(h, MaxRequests)

\* handleCacheStats: the loop over the copied entries, from the last down
\* to the first, that collects the views of the LOCAL entries
RECURSIVE localRamCacheLoop(_, _, _)
localRamCacheLoop(entries, i, localRamCache) ==
    IF i < 1 THEN localRamCache
    ELSE LET entry == entries[i]
             source == IF entry.Source = "" THEN cacheSourceLocal ELSE entry.Source
         IN  IF source = cacheSourceLocal
             THEN localRamCacheLoop(entries, i - 1,
                      Append(localRamCache,
                             [Question |-> entry.Question, Answer |-> entry.Answer,
                              Source |-> source, CreatedAt |-> entry.CreatedAt]))
             ELSE localRamCacheLoop(entries, i - 1, localRamCache)

\* mutant: the unsaved items are counted as local hits too
RECURSIVE metricsLoop_CountsAll(_, _, _, _)
metricsLoop_CountsAll(history, i, metrics, s3CacheUsed) ==
    IF i < 1 THEN [metrics |-> metrics, s3CacheUsed |-> s3CacheUsed]
    ELSE LET item == history[i]
             summed == [metrics EXCEPT
                          !.CacheHits = @ + 1,
                          !.EstimatedTokensSaved = @ + item.Tokens,
                          !.EnergySavedWh = @ + item.EnergyWh,
                          !.CO2SavedG = @ + item.CO2g]
         IN  IF item.Source = cacheSourceS3
             THEN metricsLoop_CountsAll(history, i - 1,
                      [summed EXCEPT !.S3CacheHits = @ + 1], s3CacheUsed)
             ELSE metricsLoop_CountsAll(history, i - 1,
                      [summed EXCEPT !.LocalCacheHits = @ + 1], s3CacheUsed)

\* handleCacheStats: the loop over the copied ledger, from the last item down
\* to the first, that sums the metrics and collects the views of the S3 hits
RECURSIVE metricsLoop(_, _, _, _)
metricsLoop(history, i, metrics, s3CacheUsed) ==
    IF i < 1 THEN [metrics |-> metrics, s3CacheUsed |-> s3CacheUsed]
    ELSE LET item == history[i]
         IN  IF ~item.Saved THEN metricsLoop(history, i - 1, metrics, s3CacheUsed)
             ELSE LET source == IF item.Source = "" THEN cacheSourceLocal ELSE item.Source
                      summed == [metrics EXCEPT
                                   !.CacheHits = @ + 1,
                                   !.EstimatedTokensSaved = @ + item.Tokens,
                                   !.EnergySavedWh = @ + item.EnergyWh,
                                   !.CO2SavedG = @ + item.CO2g]
                  IN  IF source = cacheSourceS3
                      THEN metricsLoop(history, i - 1,
                               [summed EXCEPT !.S3CacheHits = @ + 1],
                               Append(s3CacheUsed,
                                      [Question |-> item.Question, Answer |-> item.Answer,
                                       Source |-> source, Timestamp |-> item.Timestamp,
                                       Tokens |-> item.Tokens, EnergyWh |-> item.EnergyWh,
                                       CO2g |-> item.CO2g]))
                      ELSE metricsLoop(history, i - 1,
                               [summed EXCEPT !.LocalCacheHits = @ + 1], s3CacheUsed)

\* handleCacheStats, a GET of /cache-stats, up to dbMutex.RUnlock: the store
\* and the ledger are copied.
CacheStatsCopyUpTo(h, maxRequests) ==
    /\ Listening
    /\ Free(h)
    /\ \A g \in Handlers : g < h => ~Free(g)
    /\ served < maxRequests
    /\ served' = served + 1
    /\ req' = [req EXCEPT ![h] =
                 [IdleReq EXCEPT !.pc = "stats", !.route = "/cache-stats",
                                 !.entries = MockVectorDB, !.history = ChatHistory]]
    /\ ReqFrame
    /\ UNCHANGED <<MockVectorDB, ChatHistory, mergeHist>>

CacheStatsCopy(h) == CacheStatsCopyUpTo(h, MaxRequests)

\* handleCacheStats from statusMutex.RLock on: the status is read, the
\* response computed from the copies and written.
CacheStatsRespond(h) ==
    /\ req[h].pc = "stats"
    /\ LET r == metricsLoop(req[h].history, Len(req[h].history), NoMetrics, <<>>)
       IN  req' = [req EXCEPT ![h] =
                     [IdleReq EXCEPT
                        !.pc = "done", !.route = "/cache-stats",
                        !.resp = [NoResponse EXCEPT !.status = 200],
                        !.stats =
                           [Uploading |-> s3Uploading,
                            LastUploadAt |-> IF hasLastS3Upload
                                             THEN [present |-> TRUE, at |-> lastS3UploadAt]
                                             ELSE NilTime,
                            LastDownloadAt |-> IF hasLastS3Sync
                                               THEN [present |-> TRUE, at |-> lastS3DownloadAt]
                                               ELSE NilTime,
                            Metrics |-> r.metrics,
                            LocalRamCache |->
                               localRamCacheLoop(req[h].entries, Len(req[h].entries), <<>>),
                            S3CacheUsed |-> r.s3CacheUsed]]]
    /\ ReqFrame
    /\ UNCHANGED <<MockVectorDB, ChatHistory, mergeHist, served>>

----
\* A sync.RWMutex: the goroutines that hold it locked, and read-locked.
FreeMutex == [writers |-> {}, readers |-> {}]

\* the processes that share one bucket, and a process that waits for its
\* tick with an empty store
Instances == {1, 2}
IdleInstance == [db |-> <<>>, pc |-> "wait", remoteEntries |-> <<>>, payload |-> <<>>]

----
\* A direct application of the matcher.
NoCall == [op |-> "none", a |-> <<>>, b |-> <<>>, score |-> ZeroScore,
           entry |-> ZeroEntry, ok |-> FALSE,
           text |-> <<>>, answer |-> <<>>, model |-> <<>>,
           tokens |-> 0, energyWh |-> 0, co2g |-> 0]

----
Init ==
    /\ MockVectorDB = <<>>
    /\ ChatHistory = <<>>
    /\ s3Uploading = FALSE
    /\ hasLastS3Upload = FALSE
    /\ lastS3UploadAt = ZeroTime
    /\ hasLastS3Sync = FALSE
    /\ lastS3DownloadAt = ZeroTime
    /\ s3Enabled = FALSE
    /\ remote = Absent
    /\ syncPc = "init"
    /\ inTick = FALSE
    /\ remoteEntries = <<>>
    /\ payload = <<>>
    /\ now = 0
    /\ remoteWrites = 0
    /\ dlOutcome = "none"
    /\ lastMerged = <<>>
    /\ sameAgain = FALSE
    /\ putOk = FALSE
    /\ req = [h \in Handlers |-> IdleReq]
    /\ served = 0
    /\ call = NoCall
    /\ dbMutex = FreeMutex
    /\ statusMutex = FreeMutex
    /\ mainPc = "main_init"
    /\ instances = [k \in Instances |-> IdleInstance]

Next ==
    \/ InitS3Fails
    \/ InitS3Ok
    \/ Tick
    \/ GetNotFound
    \/ GetFails
    \/ ReadFails
    \/ BodyEmpty
    \/ DecodeFails
    \/ Decoded
    \/ Merge
    \/ CheckHasData
    \/ UploadBegin
    \/ UploadSnapshot
    \/ MarshalFails
    \/ PutOk
    \/ PutFails
    \/ UploadMark
    \/ UploadExit
    \/ RemoteWrite
    \/ \E h \in Handlers :
          \/ Receive(h)
          \/ HitAppend(h)
          \/ UpstreamOk(h)
          \/ UpstreamFails(h)
          \/ MissAppend(h)
          \/ handleHistory(h)

Spec == Init /\ [][Next]_vars

----
\* The server with S3 disabled (initS3Client fails in main): only the request
\* handlers run.
InitLocal ==
    /\ MockVectorDB = <<>>
    /\ ChatHistory = <<>>
    /\ s3Uploading = FALSE
    /\ hasLastS3Upload = FALSE
    /\ lastS3UploadAt = ZeroTime
    /\ hasLastS3Sync = FALSE
    /\ lastS3DownloadAt = ZeroTime
    /\ s3Enabled = FALSE
    /\ remote = Absent
    /\ syncPc = "disabled"
    /\ inTick = FALSE
    /\ remoteEntries = <<>>
    /\ payload = <<>>
    /\ now = 0
    /\ remoteWrites = 0
    /\ dlOutcome = "none"
    /\ lastMerged = <<>>
    /\ sameAgain = FALSE
    /\ putOk = FALSE
    /\ req = [h \in Handlers |-> IdleReq]
    /\ served = 0
    /\ call = NoCall
    /\ dbMutex = FreeMutex
    /\ statusMutex = FreeMutex
    /\ mainPc = "main_init"
    /\ instances = [k \in Instances |-> IdleInstance]

\* The requests of Requests, and two more that differ in the model only: an
\* identifier that is not allowed, and an allowed one as it is.
LocalRequests ==
    Requests \cup
    { [text |-> X, vector |-> <<1, 0>>, model |-> <<"unknown-model">>],
      [text |-> X, vector |-> <<0, 1>>, model |-> Flash] }

ReceiveLocal(h) == ReceiveFrom(h, MaxLocalRequests, LocalRequests)

CacheStatsCopyLocal(h) == CacheStatsCopyUpTo(h, MaxLocalRequests)

handleHistoryLocal(h) == handleHistoryUpTo(h, MaxLocalRequests)

NextLocal ==
    \E h \in Handlers :
       \/ ReceiveLocal(h)
       \/ HitAppend(h)
       \/ UpstreamOk(h)
       \/ UpstreamFails(h)
       \/ MissAppend(h)
       \/ handleHistoryLocal(h)
       \/ CacheStatsCopyLocal(h)
       \/ CacheStatsRespond(h)

SpecLocal == InitLocal /\ [][NextLocal]_vars

----
\* The matcher applied directly: findBestMatch and cosineSimilarity over
\* stores and vectors drawn from bounded sets.

\* Vectors: empty, zero, parallel, opposite, orthogonal, of another dimension,
\* and a pair whose cosine is exactly 0.90 (<<1, 0, 0, 0>> and <<9, 3, 3, 1>>).
MatchVectors ==
    { <<>>, <<0, 0>>, <<1, 0>>, <<2, 0>>, <<-1, 0>>, <<0, 1>>,
      <<1, 0, 0, 0>>, <<9, 3, 3, 1>> }

\* Stored entries: inserted locally, or merged from a payload that carried a
\* similarity of its own.
MatchEntries ==
    { VectorEntry(v, AnsA, X, 0, ZeroScore, cacheSourceLocal) : v \in MatchVectors }
    \cup { VectorEntry(v, AnsB, Y, 0, [n |-> 1, d |-> 1], cacheSourceS3) :
              v \in {<<1, 0>>, <<9, 3, 3, 1>>} }

MatchStores ==
    UNION { [1..n -> MatchEntries] : n \in 0..MaxStoreLen }

InitMatch ==
    /\ MockVectorDB \in MatchStores
    /\ ChatHistory = <<>>
    /\ s3Uploading = FALSE
    /\ hasLastS3Upload = FALSE
    /\ lastS3UploadAt = ZeroTime
    /\ hasLastS3Sync = FALSE
    /\ lastS3DownloadAt = ZeroTime
    /\ s3Enabled = FALSE
    /\ remote = Absent
    /\ syncPc = "disabled"
    /\ inTick = FALSE
    /\ remoteEntries = <<>>
    /\ payload = <<>>
    /\ now = 0
    /\ remoteWrites = 0
    /\ dlOutcome = "none"
    /\ lastMerged = <<>>
    /\ sameAgain = FALSE
    /\ putOk = FALSE
    /\ req = [h \in Handlers |-> IdleReq]
    /\ served = 0
    /\ call = NoCall
    /\ dbMutex = FreeMutex
    /\ statusMutex = FreeMutex
    /\ mainPc = "main_init"
    /\ instances = [k \in Instances |-> IdleInstance]

MatchFrame ==
    UNCHANGED <<MockVectorDB, ChatHistory, statusVars, syncVars, remote, now,
                remoteWrites, histVars, reqVars, lockVars, mainPc, instances>>

\* findBestMatch(vector) over the store
ApplyFindBestMatch ==
    /\ \E vector \in MatchVectors :
          LET r == findBestMatch(MockVectorDB, vector)
          IN  call' = [NoCall EXCEPT !.op = "findBestMatch", !.a = vector,
                                     !.entry = r.entry, !.ok = r.ok]
    /\ MatchFrame

\* cosineSimilarity(a, b)
ApplyCosineSimilarity ==
    /\ \E a \in MatchVectors, b \in MatchVectors :
          call' = [NoCall EXCEPT !.op = "cosineSimilarity", !.a = a, !.b = b,
                                 !.score = cosineSimilarity(a, b)]
    /\ MatchFrame

NextMatch ==
    \/ ApplyFindBestMatch
    \/ ApplyCosineSimilarity

SpecMatch == InitMatch /\ [][NextMatch]_vars

----
\* The savings accountant applied directly: estimateTokens and
\* estimateSavings over texts and model identifiers drawn from bounded sets.

\* Texts of every length up to MaxTextLen, and one of white space around a letter.
AccountTexts ==
    { [i \in 1..n |-> "x"] : n \in 0..MaxTextLen } \cup { <<" ", "x", " ", " ", " ">> }

\* Models: the two with a constant of their own, an unknown one, none, and
\* a known one that was not trimmed.
AccountModels == { FlashLite, Flash, <<"unknown-model">>, <<>>, <<" ", Flash[1]>> }

ApplyEstimateTokens ==
    /\ \E text \in AccountTexts :
          call' = [NoCall EXCEPT !.op = "estimateTokens", !.text = text,
                                 !.tokens = estimateTokens(text)]
    /\ MatchFrame

ApplyEstimateSavings ==
    /\ \E question \in AccountTexts, answer \in AccountTexts, model \in AccountModels :
          LET r == estimateSavings(question, answer, model)
          IN  call' = [NoCall EXCEPT !.op = "estimateSavings", !.text = question,
                                     !.answer = answer, !.model = model,
                                     !.tokens = r.tokens, !.energyWh = r.energyWh,
                                     !.co2g = r.co2g]
    /\ MatchFrame

NextAccount ==
    \/ ApplyEstimateTokens
    \/ ApplyEstimateSavings

SpecAccount == InitLocal /\ [][NextAccount]_vars

----
\* The sync task beside all three routes: /chat, /history and /cache-stats.

\* the one request of this specification: it misses on an empty store and
\* hits the first record of Foreign once merged
StatusRequests == {[text |-> X, vector |-> <<0, 1>>, model |-> <<>>]}

ReceiveStatus(h) == ReceiveFrom(h, MaxRequests, StatusRequests)

NextStatus ==
    \/ InitS3Fails
    \/ InitS3Ok
    \/ Tick
    \/ GetNotFound
    \/ GetFails
    \/ ReadFails
    \/ BodyEmpty
    \/ DecodeFails
    \/ Decoded
    \/ Merge
    \/ CheckHasData
    \/ UploadBegin
    \/ UploadSnapshot
    \/ MarshalFails
    \/ PutOk
    \/ PutFails
    \/ UploadMark
    \/ UploadExit
    \/ RemoteWrite
    \/ \E h \in Handlers :
          \/ ReceiveStatus(h)
          \/ HitAppend(h)
          \/ UpstreamOk(h)
          \/ UpstreamFails(h)
          \/ MissAppend(h)
          \/ handleHistory(h)
          \/ CacheStatsCopy(h)
          \/ CacheStatsRespond(h)

SpecStatus == Init /\ [][NextStatus]_vars

----
\* This process as the only writer of the object: the object is absent or
\* holds what an earlier run of the program uploaded, and nobody else writes,
\* so that no download finds an empty body or one that does not decode.

\* the body an earlier run uploaded: one entry, as uploadToS3 marshals it
EarlierUpload ==
    MarshalIndent(<<VectorEntry(<<0, 1>>, AnsB, Y, 0, ZeroScore, cacheSourceLocal)>>)

InitSolo ==
    /\ MockVectorDB = <<>>
    /\ ChatHistory = <<>>
    /\ s3Uploading = FALSE
    /\ hasLastS3Upload = FALSE
    /\ lastS3UploadAt = ZeroTime
    /\ hasLastS3Sync = FALSE
    /\ lastS3DownloadAt = ZeroTime
    /\ s3Enabled = FALSE
    /\ remote \in {Absent, EarlierUpload}
    /\ syncPc = "init"
    /\ inTick = FALSE
    /\ remoteEntries = <<>>
    /\ payload = <<>>
    /\ now = 0
    /\ remoteWrites = 0
    /\ dlOutcome = "none"
    /\ lastMerged = <<>>
    /\ sameAgain = FALSE
    /\ putOk = FALSE
    /\ req = [h \in Handlers |-> IdleReq]
    /\ served = 0
    /\ call = NoCall
    /\ dbMutex = FreeMutex
    /\ statusMutex = FreeMutex
    /\ mainPc = "main_init"
    /\ instances = [k \in Instances |-> IdleInstance]

NextSolo ==
    \/ InitS3Fails
    \/ InitS3Ok
    \/ Tick
    \/ GetNotFound
    \/ GetFails
    \/ ReadFails
    \/ Decoded
    \/ Merge
    \/ CheckHasData
    \/ UploadBegin
    \/ UploadSnapshot
    \/ MarshalFails
    \/ PutOk
    \/ PutFails
    \/ UploadMark
    \/ UploadExit
    \/ \E h \in Handlers :
          \/ Receive(h)
          \/ HitAppend(h)
          \/ UpstreamOk(h)
          \/ UpstreamFails(h)
          \/ MissAppend(h)
          \/ handleHistory(h)

SpecSolo == InitSolo /\ [][NextSolo]_vars

----
\* Upload and download of this process alone, from stores drawn from a
\* bounded set: the server waits for its first tick, the object is absent.

\* Entries as requests and merges leave them: answers to x, one of them for
\* a text with a trailing blank, and a merged answer to y.
RoundEntries ==
    { VectorEntry(<<1, 0>>, AnsA, X, 0, ZeroScore, cacheSourceLocal),
      VectorEntry(<<1, 0>>, AnsB, X, 0, ZeroScore, cacheSourceLocal),
      VectorEntry(<<1, 0>>, AnsA, <<"x", " ">>, 0, ZeroScore, cacheSourceLocal),
      VectorEntry(<<0, 1>>, AnsB, Y, 0, ZeroScore, cacheSourceS3) }

\* Stores: concurrent misses insert a question twice, the merge never does.
RoundStores ==
    { db \in UNION { [1..n -> RoundEntries] : n \in 0..MaxStoreLen } :
         Cardinality({ i \in DOMAIN db : db[i].Source = cacheSourceS3 }) <= 1 }

InitRound ==
    /\ MockVectorDB \in RoundStores
    /\ ChatHistory = <<>>
    /\ s3Uploading = FALSE
    /\ hasLastS3Upload = FALSE
    /\ lastS3UploadAt = ZeroTime
    /\ hasLastS3Sync = FALSE
    /\ lastS3DownloadAt = ZeroTime
    /\ s3Enabled = TRUE
    /\ remote = Absent
    /\ syncPc = "wait"
    /\ inTick = FALSE
    /\ remoteEntries = <<>>
    /\ payload = <<>>
    /\ now = 0
    /\ remoteWrites = 0
    /\ dlOutcome = "none"
    /\ lastMerged = <<>>
    /\ sameAgain = FALSE
    /\ putOk = FALSE
    /\ req = [h \in Handlers |-> IdleReq]
    /\ served = 0
    /\ call = NoCall
    /\ dbMutex = FreeMutex
    /\ statusMutex = FreeMutex
    /\ mainPc = "main_init"
    /\ instances = [k \in Instances |-> IdleInstance]

NextRound ==
    \/ Tick
    \/ GetNotFound
    \/ GetFails
    \/ ReadFails
    \/ Decoded
    \/ Merge
    \/ CheckHasData
    \/ UploadBegin
    \/ UploadSnapshot
    \/ MarshalFails
    \/ PutOk
    \/ PutFails
    \/ UploadMark
    \/ UploadExit

SpecRound == InitRound /\ [][NextRound]_vars

----
\* Two processes that sync to one key of one bucket, with no remote failure.
\* Both have started on an absent object and wait for their ticks; each
\* serves requests for one text of its own.  The sync status is left out.

\* the text and the vector of the requests process k receives
PairText(k) == IF k = 1 THEN X ELSE Y
PairVector(k) == IF k = 1 THEN <<1, 0>> ELSE <<0, 1>>

PairFrame ==
    UNCHANGED <<MockVectorDB, ChatHistory, statusVars, syncVars, now, remoteWrites,
                histVars, reqVars, call, lockVars, mainPc>>

\* handleChat at process k: the lookup misses, the upstream answers, and
\* saveToMockVectorDB inserts
PairInsert(k) ==
    /\ ~findBestMatch(instances[k].db, PairVector(k)).ok
    /\ instances' = [instances EXCEPT
                       ![k].db = saveToMockVectorDB(@, PairVector(k), AnsA, PairText(k))]
    /\ UNCHANGED remote
    /\ PairFrame

\* the ticker of process k fires
PairTick(k) ==
    /\ instances[k].pc = "wait"
    /\ instances' = [instances EXCEPT ![k].pc = "dl_get"]
    /\ UNCHANGED remote
    /\ PairFrame

\* downloadAndMergeFromS3 up to the lock: the object is not found, or it is
\* fetched and decoded
PairGet(k) ==
    /\ instances[k].pc = "dl_get"
    /\ instances' = [instances EXCEPT
                       ![k] = IF remote.kind = "json"
                              THEN [@ EXCEPT !.remoteEntries = Unmarshal(remote),
                                             !.pc = "dl_merge"]
                              ELSE [@ EXCEPT !.pc = "check"]]
    /\ UNCHANGED remote
    /\ PairFrame

\* the merge
PairMerge(k) ==
    /\ instances[k].pc = "dl_merge"
    /\ instances' = [instances EXCEPT
                       ![k] = [@ EXCEPT !.db = mergeEntries(@, instances[k].remoteEntries),
                                        !.remoteEntries = <<>>,
                                        !.pc = "check"]]
    /\ UNCHANGED remote
    /\ PairFrame

\* mutant: the tick ends after the download
PairCheck_NoUpload(k) ==
    /\ instances[k].pc = "check"
    /\ instances' = [instances EXCEPT ![k].pc = "wait"]
    /\ UNCHANGED remote
    /\ PairFrame

\* startBackgroundSync: uploadToS3 if the store holds an entry
PairCheck(k) ==
    /\ instances[k].pc = "check"
    /\ instances' = [instances EXCEPT
                       ![k].pc = IF Len(instances[k].db) > 0 THEN "up_snapshot" ELSE "wait"]
    /\ UNCHANGED remote
    /\ PairFrame

\* uploadToS3: the copy of the store
PairSnapshot(k) ==
    /\ instances[k].pc = "up_snapshot"
    /\ instances' = [instances EXCEPT
                       ![k] = [@ EXCEPT !.payload = instances[k].db, !.pc = "up_put"]]
    /\ UNCHANGED remote
    /\ PairFrame

\* uploadToS3: PutObject replaces the object
PairPut(k) ==
    /\ instances[k].pc = "up_put"
    /\ remote' = MarshalIndent(instances[k].payload)
    /\ instances' = [instances EXCEPT ![k] = [@ EXCEPT !.payload = <<>>, !.pc = "wait"]]
    /\ PairFrame

\* a step of the sync goroutine of process k
PairSync(k) ==
    \/ PairTick(k)
    \/ PairGet(k)
    \/ PairMerge(k)
    \/ PairCheck(k)
    \/ PairSnapshot(k)
    \/ PairPut(k)

InitPair ==
    /\ MockVectorDB = <<>>
    /\ ChatHistory = <<>>
    /\ s3Uploading = FALSE
    /\ hasLastS3Upload = FALSE
    /\ lastS3UploadAt = ZeroTime
    /\ hasLastS3Sync = FALSE
    /\ lastS3DownloadAt = ZeroTime
    /\ s3Enabled = TRUE
    /\ remote = Absent
    /\ syncPc = "wait"
    /\ inTick = FALSE
    /\ remoteEntries = <<>>
    /\ payload = <<>>
    /\ now = 0
    /\ remoteWrites = 0
    /\ dlOutcome = "none"
    /\ lastMerged = <<>>
    /\ sameAgain = FALSE
    /\ putOk = FALSE
    /\ req = [h \in Handlers |-> IdleReq]
    /\ served = 0
    /\ call = NoCall
    /\ dbMutex = FreeMutex
    /\ statusMutex = FreeMutex
    /\ mainPc = "main_init"
    /\ instances = [k \in Instances |-> IdleInstance]

NextPair ==
    \E k \in Instances :
        \/ PairInsert(k)
        \/ PairTick(k)
        \/ PairGet(k)
        \/ PairMerge(k)
        \/ PairCheck(k)
        \/ PairSnapshot(k)
        \/ PairPut(k)

\* The ticker of every process fires again and again and its sync goroutine
\* runs; requests may stop coming.
FairPair == \A k \in Instances : WF_vars(PairSync(k))

SpecPair == InitPair /\ [][NextPair]_vars /\ FairPair

----
\* The locking of the program: every goroutine as the sequence of its lock
\* operations, its accesses to the shared structures and its input/output,
\* the data left out.  syncPc and req[h].pc are positions in lockProgram: the
\* instruction the goroutine executes next.

\* the goroutine of main and startBackgroundSync, beside the handlers
SyncTask == 0
LockTasks == Handlers \cup {SyncTask}

\* the goroutine of main, where it is told apart from the sync goroutine
MainTask == 3

\* An instruction: op is Lock, RLock, Unlock, RUnlock (of mutex mu), read or
\* write (of the structures in what), call (of the input/output in what), or
\* return; next are the positions that may follow.
Instr(op, mu, what, next) == [op |-> op, mu |-> mu, what |-> what, next |-> next]

\* handleChat with findBestMatch, callGemini, saveToMockVectorDB, appendHistory
chatProgram ==
    [ chat_rlock   |-> Instr("RLock", "db", {}, {"chat_lookup"}),
      chat_lookup  |-> Instr("read", "", {"store"}, {"chat_runlock"}),
      chat_runlock |-> Instr("RUnlock", "db", {}, {"hit_lock", "gemini"}),
      hit_lock     |-> Instr("Lock", "db", {}, {"hit_append"}),
      hit_append   |-> Instr("write", "", {"ledger"}, {"hit_unlock"}),
      hit_unlock   |-> Instr("Unlock", "db", {}, {"chat_write"}),
      gemini       |-> Instr("call", "", {"callGemini"}, {"save_lock", "chat_write"}),
      save_lock    |-> Instr("Lock", "db", {}, {"save_append"}),
      save_append  |-> Instr("write", "", {"store"}, {"save_unlock"}),
      save_unlock  |-> Instr("Unlock", "db", {}, {"miss_lock"}),
      miss_lock    |-> Instr("Lock", "db", {}, {"miss_append"}),
      miss_append  |-> Instr("write", "", {"ledger"}, {"miss_unlock"}),
      miss_unlock  |-> Instr("Unlock", "db", {}, {"chat_write"}),
      chat_write   |-> Instr("call", "", {"writeJSON"}, {"idle"}) ]

\* handleHistory: the deferred RUnlock runs after writeJSON
historyProgram ==
    [ hist_rlock   |-> Instr("RLock", "db", {}, {"hist_copy"}),
      hist_copy    |-> Instr("read", "", {"ledger"}, {"hist_write"}),
      hist_write   |-> Instr("call", "", {"writeJSON"}, {"hist_runlock"}),
      hist_runlock |-> Instr("RUnlock", "db", {}, {"idle"}) ]

\* handleCacheStats, had it read the status first and kept statusMutex while
\* it copies the store and the ledger
statsProgram_StatusFirst ==
    [ stats_enter          |-> Instr("enter", "", {}, {"stats_status_rlock"}),
      stats_status_rlock   |-> Instr("RLock", "status", {}, {"stats_status"}),
      stats_status         |-> Instr("read", "", {"status"}, {"stats_rlock"}),
      stats_rlock          |-> Instr("RLock", "db", {}, {"stats_copy"}),
      stats_copy           |-> Instr("read", "", {"store", "ledger"}, {"stats_runlock"}),
      stats_runlock        |-> Instr("RUnlock", "db", {}, {"stats_status_runlock"}),
      stats_status_runlock |-> Instr("RUnlock", "status", {}, {"stats_write"}),
      stats_write          |-> Instr("call", "", {"writeJSON"}, {"idle"}) ]

\* handleCacheStats; stats_enter is its entry, its next the first instruction
statsProgram ==
    [ stats_enter          |-> Instr("enter", "", {}, {"stats_rlock"}),
      stats_rlock          |-> Instr("RLock", "db", {}, {"stats_copy"}),
      stats_copy           |-> Instr("read", "", {"store", "ledger"}, {"stats_runlock"}),
      stats_runlock        |-> Instr("RUnlock", "db", {}, {"stats_status_rlock"}),
      stats_status_rlock   |-> Instr("RLock", "status", {}, {"stats_status"}),
      stats_status         |-> Instr("read", "", {"status"}, {"stats_status_runlock"}),
      stats_status_runlock |-> Instr("RUnlock", "status", {}, {"stats_write"}),
      stats_write          |-> Instr("call", "", {"writeJSON"}, {"idle"}) ]

\* downloadAndMergeFromS3 with markS3DownloadCompleted: the deferred Unlock
\* of dbMutex runs after markS3DownloadCompleted
downloadProgram ==
    [ dl_get         |-> Instr("call", "", {"GetObject"}, {"dl_lock", "dl_return"}),
      dl_lock        |-> Instr("Lock", "db", {}, {"dl_merge"}),
      dl_merge       |-> Instr("write", "", {"store"}, {"dl_mark_lock"}),
      dl_mark_lock   |-> Instr("Lock", "status", {}, {"dl_mark"}),
      dl_mark        |-> Instr("write", "", {"status"}, {"dl_mark_unlock"}),
      dl_mark_unlock |-> Instr("Unlock", "status", {}, {"dl_unlock"}),
      dl_unlock      |-> Instr("Unlock", "db", {}, {"dl_return"}),
      dl_return      |-> Instr("return", "", {}, {"check_rlock", "wait"}) ]

\* the check of len(MockVectorDB), had it taken statusMutex instead of dbMutex
checkProgram_WrongMutex ==
    [ check_rlock   |-> Instr("RLock", "status", {}, {"check_len"}),
      check_len     |-> Instr("read", "", {"store"}, {"check_runlock"}),
      check_runlock |-> Instr("RUnlock", "status", {}, {"up_set_lock", "wait"}) ]

\* startBackgroundSync: the check of len(MockVectorDB) after the download
checkProgram ==
    [ check_rlock   |-> Instr("RLock", "db", {}, {"check_len"}),
      check_len     |-> Instr("read", "", {"store"}, {"check_runlock"}),
      check_runlock |-> Instr("RUnlock", "db", {}, {"up_set_lock", "wait"}) ]

\* uploadToS3, had it released the read lock of the store after the put
uploadProgram_PutUnderLock ==
    [ up_set_lock     |-> Instr("Lock", "status", {}, {"up_set"}),
      up_set          |-> Instr("write", "", {"status"}, {"up_set_unlock"}),
      up_set_unlock   |-> Instr("Unlock", "status", {}, {"up_rlock"}),
      up_rlock        |-> Instr("RLock", "db", {}, {"up_copy"}),
      up_copy         |-> Instr("read", "", {"store"}, {"up_put"}),
      up_put          |-> Instr("call", "", {"PutObject"}, {"up_runlock"}),
      up_runlock      |-> Instr("RUnlock", "db", {}, {"up_mark_lock", "up_unset_lock"}),
      up_mark_lock    |-> Instr("Lock", "status", {}, {"up_mark"}),
      up_mark         |-> Instr("write", "", {"status"}, {"up_mark_unlock"}),
      up_mark_unlock  |-> Instr("Unlock", "status", {}, {"up_unset_lock"}),
      up_unset_lock   |-> Instr("Lock", "status", {}, {"up_unset"}),
      up_unset        |-> Instr("write", "", {"status"}, {"up_unset_unlock"}),
      up_unset_unlock |-> Instr("Unlock", "status", {}, {"wait"}) ]

\* uploadToS3 with setUploading and markS3UploadCompleted
uploadProgram ==
    [ up_set_lock     |-> Instr("Lock", "status", {}, {"up_set"}),
      up_set          |-> Instr("write", "", {"status"}, {"up_set_unlock"}),
      up_set_unlock   |-> Instr("Unlock", "status", {}, {"up_rlock"}),
      up_rlock        |-> Instr("RLock", "db", {}, {"up_copy"}),
      up_copy         |-> Instr("read", "", {"store"}, {"up_runlock"}),
      up_runlock      |-> Instr("RUnlock", "db", {}, {"up_put", "up_unset_lock"}),
      up_put          |-> Instr("call", "", {"PutObject"}, {"up_mark_lock", "up_unset_lock"}),
      up_mark_lock    |-> Instr("Lock", "status", {}, {"up_mark"}),
      up_mark         |-> Instr("write", "", {"status"}, {"up_mark_unlock"}),
      up_mark_unlock  |-> Instr("Unlock", "status", {}, {"up_unset_lock"}),
      up_unset_lock   |-> Instr("Lock", "status", {}, {"up_unset"}),
      up_unset        |-> Instr("write", "", {"status"}, {"up_unset_unlock"}),
      up_unset_unlock |-> Instr("Unlock", "status", {}, {"wait"}) ]

\* the positions at which a goroutine has nothing to execute
restProgram ==
    [ idle |-> Instr("rest", "", {}, {"chat_rlock", "hist_rlock", "stats_rlock", "idle"}),
      wait |-> Instr("rest", "", {}, {"dl_get"}) ]

\* main, had it started the background sync before its own download
mainProgram_SyncFirst ==
    [ main_init       |-> Instr("init", "", {"initS3Client"}, {"main_start_sync", "main_listen"}),
      main_start_sync |-> Instr("go", "", {"startBackgroundSync"}, {"main_download"}),
      main_download   |-> Instr("run", "", {"downloadAndMergeFromS3"}, {"main_listen"}),
      main_listen     |-> Instr("listen", "", {"ListenAndServe"}, {"main_serve"}),
      main_serve      |-> Instr("rest", "", {}, {"main_serve"}),
      off             |-> Instr("rest", "", {}, {"wait"}) ]

\* main: initS3Client; if it succeeded downloadAndMergeFromS3, then
\* startBackgroundSync; then ListenAndServe.  main_download is the call of
\* downloadAndMergeFromS3, its next the position the call returns to; off is
\* the position of the sync goroutine before startBackgroundSync has run.
mainProgram ==
    [ main_init       |-> Instr("init", "", {"initS3Client"}, {"main_download", "main_listen"}),
      main_download   |-> Instr("run", "", {"downloadAndMergeFromS3"}, {"main_start_sync"}),
      main_start_sync |-> Instr("go", "", {"startBackgroundSync"}, {"main_listen"}),
      main_listen     |-> Instr("listen", "", {"ListenAndServe"}, {"main_serve"}),
      main_serve      |-> Instr("rest", "", {}, {"main_serve"}),
      off             |-> Instr("rest", "", {}, {"wait"}) ]

lockProgram ==
    chatProgram @@ historyProgram @@ statsProgram @@ downloadProgram @@ checkProgram
    @@ uploadProgram @@ restProgram @@ mainProgram

\* the position of a goroutine, and its instruction
PcOf(t) == IF t = SyncTask THEN syncPc ELSE IF t = MainTask THEN mainPc ELSE req[t].pc
InstrOf(t) == lockProgram[PcOf(t)]

\* goroutine t moves to position pc
Goto(t, pc) ==
    IF t = SyncTask
    THEN syncPc' = pc /\ req' = req /\ mainPc' = mainPc
    ELSE IF t = MainTask
         THEN mainPc' = pc /\ req' = req /\ syncPc' = syncPc
         ELSE req' = [req EXCEPT ![t].pc = pc] /\ syncPc' = syncPc /\ mainPc' = mainPc

MutexOf(mu) == IF mu = "db" THEN dbMutex ELSE statusMutex

\* the mutex mu becomes m
SetMutex(mu, m) ==
    IF mu = "db"
    THEN dbMutex' = m /\ statusMutex' = statusMutex
    ELSE statusMutex' = m /\ dbMutex' = dbMutex

LockFrame ==
    UNCHANGED <<MockVectorDB, ChatHistory, statusVars, s3Enabled, remote, remoteEntries,
                payload, now, remoteWrites, histVars, served, call, instances>>

\* Lock and RLock: Lock waits until nobody holds the mutex, RLock until no
\* writer holds it.
LockAcquire(t) ==
    /\ InstrOf(t).op \in {"Lock", "RLock"}
    /\ LET m == MutexOf(InstrOf(t).mu)
       IN  IF InstrOf(t).op = "Lock"
           THEN /\ m.writers = {} /\ m.readers = {}
                /\ SetMutex(InstrOf(t).mu, [m EXCEPT !.writers = {t}])
           ELSE /\ m.writers = {}
                /\ SetMutex(InstrOf(t).mu, [m EXCEPT !.readers = @ \cup {t}])
    /\ \E pc \in InstrOf(t).next : Goto(t, pc)
    /\ UNCHANGED inTick
    /\ LockFrame

\* Unlock and RUnlock by the goroutine that holds the mutex
LockRelease(t) ==
    /\ InstrOf(t).op \in {"Unlock", "RUnlock"}
    /\ LET m == MutexOf(InstrOf(t).mu)
       IN  IF InstrOf(t).op = "Unlock"
           THEN /\ t \in m.writers
                /\ SetMutex(InstrOf(t).mu, [m EXCEPT !.writers = {}])
           ELSE /\ t \in m.readers
                /\ SetMutex(InstrOf(t).mu, [m EXCEPT !.readers = @ \ {t}])
    /\ \E pc \in InstrOf(t).next : Goto(t, pc)
    /\ UNCHANGED inTick
    /\ LockFrame

\* a read or a write of the shared structures
Access(t) ==
    /\ InstrOf(t).op \in {"read", "write"}
    /\ \E pc \in InstrOf(t).next : Goto(t, pc)
    /\ UNCHANGED <<inTick, lockVars>>
    /\ LockFrame

\* the call of GetObject, PutObject, callGemini or writeJSON returns
IoReturns(t) ==
    /\ InstrOf(t).op = "call"
    /\ \E pc \in InstrOf(t).next : Goto(t, pc)
    /\ UNCHANGED <<inTick, lockVars>>
    /\ LockFrame

\* downloadAndMergeFromS3 returns: to main, which starts the ticker loop, or
\* to the loop, which goes on to its check
DownloadReturnsTo ==
    /\ syncPc = "dl_return"
    /\ syncPc' = (IF inTick THEN "check_rlock" ELSE "wait")
    /\ UNCHANGED <<req, inTick, lockVars, mainPc, instances>>
    /\ LockFrame

\* the ticker fires
LockTick ==
    /\ syncPc = "wait"
    /\ syncPc' = "dl_get"
    /\ inTick' = TRUE
    /\ UNCHANGED <<req, lockVars, mainPc, instances>>
    /\ LockFrame

\* a handler goroutine starts on a request for /chat, /history or /cache-stats
HandlerStarts(h) ==
    /\ Listening
    /\ req[h].pc = "idle"
    /\ \E pc \in {"chat_rlock", "hist_rlock"} \cup lockProgram["stats_enter"].next :
          Goto(h, pc)
    /\ UNCHANGED <<inTick, lockVars, mainPc, instances>>
    /\ LockFrame

InitLock ==
    /\ MockVectorDB = <<>>
    /\ ChatHistory = <<>>
    /\ s3Uploading = FALSE
    /\ hasLastS3Upload = FALSE
    /\ lastS3UploadAt = ZeroTime
    /\ hasLastS3Sync = FALSE
    /\ lastS3DownloadAt = ZeroTime
    /\ s3Enabled = TRUE
    /\ remote = Absent
    /\ syncPc = "dl_get"
    /\ inTick = FALSE
    /\ remoteEntries = <<>>
    /\ payload = <<>>
    /\ now = 0
    /\ remoteWrites = 0
    /\ dlOutcome = "none"
    /\ lastMerged = <<>>
    /\ sameAgain = FALSE
    /\ putOk = FALSE
    /\ req = [h \in Handlers |-> IdleReq]
    /\ served = 0
    /\ call = NoCall
    /\ dbMutex = FreeMutex
    /\ statusMutex = FreeMutex
    /\ mainPc = "main_init"
    /\ instances = [k \in Instances |-> IdleInstance]

NextLock ==
    \/ DownloadReturnsTo
    \/ LockTick
    \/ \E h \in Handlers : HandlerStarts(h)
    \/ \E t \in LockTasks :
          \/ LockAcquire(t)
          \/ LockRelease(t)
          \/ Access(t)
          \/ IoReturns(t)

SpecLock == InitLock /\ [][NextLock]_vars

----
\* main and the sync goroutine told apart: main runs its download itself,
\* startBackgroundSync starts the goroutine of the ticker loop, and the
\* handlers run once main has reached ListenAndServe.

StartTasks == LockTasks \cup {MainTask}

StartFrame ==
    UNCHANGED <<MockVectorDB, ChatHistory, statusVars, remote, remoteEntries,
                payload, now, remoteWrites, histVars, served, call, lockVars, instances>>

\* main: initS3Client fails or succeeds
MainInit ==
    /\ InstrOf(MainTask).op = "init"
    /\ \E pc \in InstrOf(MainTask).next :
          /\ Goto(MainTask, pc)
          /\ s3Enabled' = (pc # "main_listen")
    /\ UNCHANGED inTick
    /\ StartFrame

\* main calls downloadAndMergeFromS3
MainDownloads ==
    /\ InstrOf(MainTask).op = "run"
    /\ Goto(MainTask, "dl_get")
    /\ UNCHANGED <<s3Enabled, inTick>>
    /\ StartFrame

\* downloadAndMergeFromS3 returns in goroutine t: in main to the position
\* after the call, in the ticker loop to the check of the store
DownloadReturnsIn(t) ==
    /\ PcOf(t) = "dl_return"
    /\ IF t = MainTask
       THEN \E pc \in lockProgram["main_download"].next : Goto(t, pc)
       ELSE Goto(t, "check_rlock")
    /\ UNCHANGED <<s3Enabled, inTick>>
    /\ StartFrame

\* main calls startBackgroundSync: the goroutine of the ticker loop starts
StartBackgroundSync ==
    /\ InstrOf(MainTask).op = "go"
    /\ syncPc = "off"
    /\ \E pc \in InstrOf(MainTask).next : mainPc' = pc
    /\ \E pc \in InstrOf(SyncTask).next : syncPc' = pc
    /\ UNCHANGED <<req, s3Enabled, inTick>>
    /\ StartFrame

\* main calls ListenAndServe
ListenAndServe ==
    /\ InstrOf(MainTask).op = "listen"
    /\ \E pc \in InstrOf(MainTask).next : Goto(MainTask, pc)
    /\ UNCHANGED <<s3Enabled, inTick>>
    /\ StartFrame

\* the ticker fires and the loop body starts
TickFires ==
    /\ syncPc = "wait"
    /\ Goto(SyncTask, "dl_get")
    /\ inTick' = TRUE
    /\ UNCHANGED s3Enabled
    /\ StartFrame

\* the server hands a request to a handler goroutine
HandlerBegins(h) ==
    /\ mainPc = "main_serve"
    /\ req[h].pc = "idle"
    /\ \E pc \in {"chat_rlock", "hist_rlock"} \cup lockProgram["stats_enter"].next :
          Goto(h, pc)
    /\ UNCHANGED <<s3Enabled, inTick>>
    /\ StartFrame

InitStart ==
    /\ MockVectorDB = <<>>
    /\ ChatHistory = <<>>
    /\ s3Uploading = FALSE
    /\ hasLastS3Upload = FALSE
    /\ lastS3UploadAt = ZeroTime
    /\ hasLastS3Sync = FALSE
    /\ lastS3DownloadAt = ZeroTime
    /\ s3Enabled = FALSE
    /\ remote = Absent
    /\ syncPc = "off"
    /\ inTick = FALSE
    /\ remoteEntries = <<>>
    /\ payload = <<>>
    /\ now = 0
    /\ remoteWrites = 0
    /\ dlOutcome = "none"
    /\ lastMerged = <<>>
    /\ sameAgain = FALSE
    /\ putOk = FALSE
    /\ req = [h \in Handlers |-> IdleReq]
    /\ served = 0
    /\ call = NoCall
    /\ dbMutex = FreeMutex
    /\ statusMutex = FreeMutex
    /\ mainPc = "main_init"
    /\ instances = [k \in Instances |-> IdleInstance]

NextStart ==
    \/ MainInit
    \/ MainDownloads
    \/ StartBackgroundSync
    \/ ListenAndServe
    \/ TickFires
    \/ \E h \in Handlers : HandlerBegins(h)
    \/ \E t \in {MainTask, SyncTask} : DownloadReturnsIn(t)
    \/ \E t \in StartTasks :
          \/ LockAcquire(t)
          \/ LockRelease(t)
          \/ Access(t)
          \/ IoReturns(t)

SpecStart == InitStart /\ [][NextStart]_vars

----
\* The locking with the queueing of sync.RWMutex: a Lock that has been called
\* holds back the calls of RLock that come after it, and every call of Lock
\* or RLock that can return again and again does return.

\* some goroutine other than t is waiting in Lock of mutex mu
PendingWriter(mu, t) ==
    \E u \in LockTasks \ {t} : InstrOf(u).op = "Lock" /\ InstrOf(u).mu = mu

\* Lock and RLock return: Lock when nobody holds the mutex, RLock when no
\* writer holds it and none is waiting for it
LockReturns(t) ==
    /\ InstrOf(t).op \in {"Lock", "RLock"}
    /\ LET m == MutexOf(InstrOf(t).mu)
       IN  IF InstrOf(t).op = "Lock"
           THEN /\ m.writers = {} /\ m.readers = {}
                /\ SetMutex(InstrOf(t).mu, [m EXCEPT !.writers = {t}])
           ELSE /\ m.writers = {}
                /\ ~PendingWriter(InstrOf(t).mu, t)
                /\ SetMutex(InstrOf(t).mu, [m EXCEPT !.readers = @ \cup {t}])
    /\ \E pc \in InstrOf(t).next : Goto(t, pc)
    /\ UNCHANGED inTick
    /\ LockFrame

\* a goroutine that is running goes on: it releases, accesses, and its
\* input/output ends
Runs(t) == LockRelease(t) \/ Access(t) \/ IoReturns(t)

NextQueued ==
    \/ DownloadReturnsTo
    \/ LockTick
    \/ \E h \in Handlers : HandlerStarts(h)
    \/ \E t \in LockTasks :
          \/ LockReturns(t)
          \/ LockRelease(t)
          \/ Access(t)
          \/ IoReturns(t)

\* Requests and ticks may stop coming; a goroutine that can run does, and a
\* waiter of a mutex that is free again and again gets it.
FairQueued ==
    /\ WF_vars(DownloadReturnsTo)
    /\ \A t \in LockTasks : WF_vars(Runs(t)) /\ SF_vars(LockReturns(t))

SpecQueued == InitLock /\ [][NextQueued]_vars /\ FairQueued

----
\* handleCacheStats over stores and ledgers drawn from bounded sets: the
\* server is listening, the sync task waits for its next tick.

\* Stored entries: one inserted by a request, one merged from S3.
StatEntries ==
    { VectorEntry(<<1, 0>>, AnsA, X, 0, ZeroScore, cacheSourceLocal),
      VectorEntry(<<0, 1>>, AnsB, Y, 0, ZeroScore, cacheSourceS3) }

\* Stores: the merge never appends a question twice.
StatStores ==
    { db \in UNION { [1..n -> StatEntries] : n \in 0..MaxStoreLen } :
         Cardinality({ i \in DOMAIN db : db[i].Source = cacheSourceS3 }) <= 1 }

\* Ledger items as appendHistory at time 0 makes them: a miss, a hit on the
\* local entry, a hit on the merged entry.
StatItem(question, answer, saved, source, model) ==
    [Question |-> question, Answer |-> answer, Timestamp |-> 0, Saved |-> saved,
     Source |-> source, Model |-> model,
     Tokens |-> IF saved THEN estimateSavings(question, answer, model).tokens ELSE 0,
     EnergyWh |-> IF saved THEN estimateSavings(question, answer, model).energyWh ELSE 0,
     CO2g |-> IF saved THEN estimateSavings(question, answer, model).co2g ELSE 0]

StatItems ==
    { StatItem(X, AnsA, FALSE, "CLOUD", FlashLite),
      StatItem(X, AnsA, TRUE, cacheSourceLocal, FlashLite),
      StatItem(X, AnsB, TRUE, cacheSourceS3, Flash) }

StatLedgers == UNION { [1..n -> StatItems] : n \in 0..MaxLedgerLen }

\* every item of the ledger answers from an entry of the store
Recorded(db, history) ==
    \A i \in DOMAIN history :
       \E k \in DOMAIN db :
          /\ db[k].Answer = history[i].Answer
          /\ db[k].Source = (IF history[i].Saved THEN history[i].Source ELSE cacheSourceLocal)

InitStats ==
    /\ MockVectorDB \in StatStores
    /\ ChatHistory \in StatLedgers
    /\ Recorded(MockVectorDB, ChatHistory)
    /\ s3Uploading = FALSE
    /\ hasLastS3Upload \in BOOLEAN
    /\ lastS3UploadAt = (IF hasLastS3Upload THEN 0 ELSE ZeroTime)
    /\ hasLastS3Sync \in BOOLEAN
    /\ (\E i \in DOMAIN MockVectorDB : MockVectorDB[i].Source = cacheSourceS3) => hasLastS3Sync
    /\ lastS3DownloadAt = (IF hasLastS3Sync THEN 0 ELSE ZeroTime)
    /\ s3Enabled = TRUE
    /\ remote = Absent
    /\ syncPc = "wait"
    /\ inTick = FALSE
    /\ remoteEntries = <<>>
    /\ payload = <<>>
    /\ now = 0
    /\ remoteWrites = 0
    /\ dlOutcome = "none"
    /\ lastMerged = <<>>
    /\ sameAgain = FALSE
    /\ putOk = hasLastS3Upload
    /\ req = [h \in Handlers |-> IdleReq]
    /\ served = 0
    /\ call = NoCall
    /\ dbMutex = FreeMutex
    /\ statusMutex = FreeMutex
    /\ mainPc = "main_init"
    /\ instances = [k \in Instances |-> IdleInstance]

NextStats ==
    \E h \in Handlers :
       \/ CacheStatsCopy(h)
       \/ CacheStatsRespond(h)

SpecStats == InitStats /\ [][NextStats]_vars

----
\* Properties.

\* the step in which the merge of downloadAndMergeFromS3 runs
MergeStep == syncPc = "dl_merge" /\ syncPc' # "dl_merge"

\* any step of downloadAndMergeFromS3
DownloadStep == syncPc \in DownloadPcs /\ syncPc' # syncPc

\* number of entries of db whose trimmed question is q
QuestionCount(db, q) ==
    Cardinality({i \in DOMAIN db : TrimSpace(db[i].Question) = q})

TrimmedQuestions(db) == {TrimSpace(db[i].Question) : i \in DOMAIN db} \ {<<>>}

\* C1: a run of DownloadAndMerge leaves, for every trimmed non-empty question,
\* at most one entry where there was none and as many entries as before where
\* there were some, whether the duplicate is in the store or in the payload.
C1_MergeNeverDuplicates ==
    [][DownloadStep =>
         \A q \in TrimmedQuestions(MockVectorDB') :
            IF QuestionCount(MockVectorDB, q) = 0
            THEN QuestionCount(MockVectorDB', q) <= 1
            ELSE QuestionCount(MockVectorDB', q) = QuestionCount(MockVectorDB, q)]_vars

\* C1 witness: a merge of the foreign body has ended on a store that held a
\* LOCAL entry asking x: y came in once though the body asks it twice, and
\* x stayed single though the body asks it too.
C1_Witness ==
    /\ dlOutcome = "merged"
    /\ lastMerged = <<Unmarshal(Foreign)>>
    /\ QuestionCount(MockVectorDB, Y) = 1
    /\ QuestionCount(MockVectorDB, X) = 1
    /\ \E i \in DOMAIN MockVectorDB :
          MockVectorDB[i].Question = X /\ MockVectorDB[i].Source = cacheSourceLocal

\* C2: a merge of the records the merge before it applied, with no insert
\* between the two, leaves the store as it is.
C2_MergeIdempotent ==
    [][(MergeStep /\ lastMerged = <<remoteEntries>>) => MockVectorDB' = MockVectorDB]_vars

\* C2 witness: the same records, some of them with a question, have been
\* merged twice in a row.
C2_Witness ==
    /\ sameAgain
    /\ dlOutcome = "merged"
    /\ \E i \in DOMAIN lastMerged[1] : TrimSpace(lastMerged[1][i].Question) # <<>>
    /\ \E i \in DOMAIN MockVectorDB : MockVectorDB[i].Source = cacheSourceS3

\* record i of entries asks a question that neither the store db nor an
\* earlier record of entries asks
Fresh(db, entries, i) ==
    LET q == TrimSpace(entries[i].Question)
    IN  /\ q # <<>>
        /\ \A k \in DOMAIN db : TrimSpace(db[k].Question) # q
        /\ \A j \in 1..(i - 1) : TrimSpace(entries[j].Question) # q

\* the fresh records of entries from index i on, in order, tagged S3
RECURSIVE FreshFrom(_, _, _)
FreshFrom(db, entries, i) ==
    IF i > Len(entries) THEN <<>>
    ELSE (IF Fresh(db, entries, i) THEN <<[entries[i] EXCEPT !.Source = "S3"]>> ELSE <<>>)
         \o FreshFrom(db, entries, i + 1)

\* C3: a successful merge appends exactly the fresh records of the payload, in
\* payload order, each tagged S3, after the entries the store held, which stay.
C3_MergeAppendsFresh ==
    [][MergeStep => MockVectorDB' = MockVectorDB \o FreshFrom(MockVectorDB, remoteEntries, 1)]_vars

\* C3 witness: a merge of the foreign body has ended; the LOCAL entry is still
\* first, y was appended tagged S3 though the body tags it LOCAL, and the
\* blank question was skipped.
C3_Witness ==
    /\ dlOutcome = "merged"
    /\ lastMerged = <<Unmarshal(Foreign)>>
    /\ Len(MockVectorDB) = 2
    /\ MockVectorDB[1].Source = cacheSourceLocal
    /\ MockVectorDB[2].Question = Y
    /\ MockVectorDB[2].Answer = AnsB
    /\ MockVectorDB[2].Source = "S3"

\* the step in which downloadAndMergeFromS3 returns on a failure of the
\* fetch, the body read or the decode
DownloadFailsStep ==
    syncPc \in DownloadPcs /\ syncPc' \notin DownloadPcs /\ dlOutcome' = "failed"

\* the outcomes of a download that has ended
EndedOutcomes == {"notfound", "failed", "emptybody", "merged"}

\* C4: after a download that failed in a tick (other than not-found) no Upload
\* runs in that tick; the task goes back to wait for the next tick.
C4_FailedDownloadAbandonsTick ==
    (inTick /\ dlOutcome = "failed") => syncPc \notin UploadPcs

\* C5: a failing DownloadAndMerge leaves the store, the ledger, lastDownloadAt
\* and lastUploadAt as they were and touches no request; a request is answered
\* with an upstream error only by its own failed upstream call, and with a
\* client error only on receipt.
C5_FailedDownloadChangesNothing ==
    /\ [][DownloadFailsStep =>
            UNCHANGED <<MockVectorDB, ChatHistory, hasLastS3Sync, lastS3DownloadAt,
                        hasLastS3Upload, lastS3UploadAt, req>>]_vars
    /\ [][\A h \in Handlers :
            (req'[h].resp # req[h].resp /\ req'[h].resp.status \notin {0, 200}) =>
               \/ req'[h].resp.status = 502 /\ req[h].pc = "upstream"
               \/ req'[h].resp.status = 400 /\ Free(h)]_vars

\* C5 witness: a download of a tick has failed after an earlier download had
\* succeeded, with an entry in the store: the earlier lastDownloadAt is kept.
C5_Witness ==
    /\ dlOutcome = "failed"
    /\ syncPc = "check"
    /\ hasLastS3Sync
    /\ lastS3DownloadAt < now
    /\ Len(MockVectorDB) > 0

\* C6: a download that finds no object leaves the store unchanged and records
\* lastDownloadAt.
C6_NotFoundRecordsDownload ==
    [][(syncPc = "dl_get" /\ dlOutcome' = "notfound") =>
         /\ MockVectorDB' = MockVectorDB
         /\ hasLastS3Sync'
         /\ lastS3DownloadAt' = now]_vars

\* C7: uploading is true exactly while the sync task is inside uploadToS3,
\* past its setUploading(true) and before its return.
C7_UploadingOnlyDuringUpload ==
    s3Uploading <=> syncPc \in {"up_snapshot", "up_put", "up_mark", "up_exit"}

\* C7 witness: an Upload whose put succeeded has returned, uploading is false.
C7_Witness ==
    /\ syncPc = "wait"
    /\ putOk
    /\ hasLastS3Upload
    /\ ~s3Uploading

\* C8: the snapshot of an Upload is the whole store at the moment it is taken,
\* and a successful put leaves in the object exactly that snapshot, whatever
\* the object held and whatever was inserted since.
C8_UploadWritesSnapshot ==
    /\ [][(syncPc = "up_snapshot" /\ syncPc' # "up_snapshot") =>
            payload' = MockVectorDB]_vars
    /\ [][(syncPc = "up_put" /\ syncPc' = "up_mark") =>
            (remote'.kind = "json" /\ Unmarshal(remote') = payload)]_vars

\* C8 witness: a put has succeeded with a non-empty snapshot, replacing the
\* foreign body, and the store has got an entry since the snapshot, which the
\* object does not hold.
C8_Witness ==
    /\ syncPc = "up_mark"
    /\ Len(payload) > 0
    /\ remote.kind = "json"
    /\ Unmarshal(remote) = payload
    /\ remote # Foreign
    /\ Len(MockVectorDB) > Len(payload)

\* C9: lastUploadAt is recorded by the step that follows a successful put and
\* by no other; it is absent until a put has succeeded and present ever after;
\* the other steps of an Upload leave both timestamps and the store unchanged.
C9_UploadTimestamp ==
    /\ [](hasLastS3Upload => putOk)
    /\ []((putOk /\ syncPc # "up_mark") => hasLastS3Upload)
    /\ [](syncPc = "up_mark" => putOk)
    /\ [][hasLastS3Upload => hasLastS3Upload']_vars
    /\ [][(syncPc = "up_mark" /\ syncPc' # "up_mark") =>
            (hasLastS3Upload' /\ lastS3UploadAt' = now)]_vars
    /\ [][<<hasLastS3Upload, lastS3UploadAt>>' # <<hasLastS3Upload, lastS3UploadAt>> =>
            syncPc = "up_mark"]_vars
    /\ [][(syncPc \in UploadPcs /\ syncPc # "up_mark" /\ syncPc' # syncPc) =>
            UNCHANGED <<hasLastS3Upload, lastS3UploadAt, hasLastS3Sync, lastS3DownloadAt,
                        MockVectorDB>>]_vars

\* C9 witness: the first Upload of the process has failed and is about to
\* return: lastUploadAt is absent still, lastDownloadAt is the download's.
C9_Witness ==
    /\ syncPc = "up_exit"
    /\ ~putOk
    /\ ~hasLastS3Upload
    /\ hasLastS3Sync

\* C10: in a tick the Upload starts only from the check that follows the
\* download's return, and the check starts it exactly when the store is not
\* empty; no put is made but by an Upload.
C10_DownloadThenUploadIfData ==
    /\ [](syncPc \in UploadPcs => (inTick /\ dlOutcome \in EndedOutcomes))
    /\ [][(syncPc' = "check" /\ syncPc # "check") => syncPc \in DownloadPcs]_vars
    /\ [][(syncPc' = "up_begin" /\ syncPc # "up_begin") => syncPc = "check"]_vars
    /\ [][(syncPc = "check" /\ syncPc' # "check") =>
            IF Len(MockVectorDB) > 0 THEN syncPc' = "up_begin" ELSE syncPc' = "wait"]_vars
    /\ [][putOk' # putOk => syncPc = "up_put"]_vars

\* C10 witness: in a tick whose download merged, the Upload has taken its
\* snapshot and its put is in flight.
C10_Witness ==
    /\ syncPc = "up_put"
    /\ dlOutcome = "merged"
    /\ Len(payload) > 0

----
\* The matcher, under SpecMatch.

\* the similarity of the query of the latest findBestMatch to the i-th entry
QueryScore(i) == cosineSimilarity(call.a, MockVectorDB[i].Vector)

\* a signed square s is the square of a cosine of at least 0.90
Reaches090(s) == s.n * 100 >= 81 * s.d

\* the cosine of s is greater than the cosine of t
Exceeds(s, t) == s.n * t.d > t.n * s.d

AllZero(v) == \A i \in DOMAIN v : v[i] = 0

\* C11: findBestMatch reports a match exactly when some stored entry has a
\* cosine similarity of at least 0.90 with the query; without a match the
\* result is the empty entry; an empty store, an empty query vector, or a
\* store whose vectors all have another dimension gives no match.
C11_MatchIffThreshold ==
    call.op = "findBestMatch" =>
        /\ call.ok <=> \E i \in DOMAIN MockVectorDB : Reaches090(QueryScore(i))
        /\ ~call.ok => call.entry = ZeroEntry
        /\ ( \/ MockVectorDB = <<>>
             \/ call.a = <<>>
             \/ \A i \in DOMAIN MockVectorDB : Len(MockVectorDB[i].Vector) # Len(call.a) )
           => ~call.ok

\* a match at exactly 0.90, in a store whose other entry has another dimension
C11_Witness ==
    /\ call.op = "findBestMatch"
    /\ call.ok
    /\ call.a = <<1, 0, 0, 0>>
    /\ Len(MockVectorDB) = 2
    /\ MockVectorDB[1].Vector = <<1, 0>>
    /\ MockVectorDB[2].Vector = <<9, 3, 3, 1>>

\* C12: a match returns the entry of maximum similarity over the whole store,
\* the earliest inserted among those that share the maximum; its Similarity
\* is that maximum and its other fields are the stored entry's.
C12_BestIsEarliestMaximum ==
    (call.op = "findBestMatch" /\ call.ok) =>
        \E i \in DOMAIN MockVectorDB :
           /\ \A j \in DOMAIN MockVectorDB : ~Exceeds(QueryScore(j), QueryScore(i))
           /\ \A j \in 1..(i - 1) : Exceeds(QueryScore(i), QueryScore(j))
           /\ call.entry = [MockVectorDB[i] EXCEPT !.Similarity = QueryScore(i)]

\* two different entries share the maximum and the first is returned, with
\* the computed similarity in place of the stored one
C12_Witness ==
    /\ call.op = "findBestMatch"
    /\ call.ok
    /\ call.a = <<2, 0>>
    /\ Len(MockVectorDB) = 2
    /\ MockVectorDB[1].Vector = <<1, 0>>
    /\ MockVectorDB[2].Vector = <<2, 0>>
    /\ MockVectorDB[1].Answer # MockVectorDB[2].Answer
    /\ call.entry.Answer = MockVectorDB[1].Answer
    /\ call.entry.Similarity # MockVectorDB[1].Similarity

\* C13: cosineSimilarity returns exactly 0 when a vector is empty, the
\* lengths differ, or a vector has zero norm; such a pair is below 0.90.
C13_DegenerateSimilarityIsZero ==
    ( /\ call.op = "cosineSimilarity"
      /\ \/ Len(call.a) = 0
         \/ Len(call.b) = 0
         \/ Len(call.a) # Len(call.b)
         \/ AllZero(call.a)
         \/ AllZero(call.b) )
    => (call.score = ZeroScore /\ ~Reaches090(call.score))

\* a vector of zero norm against a vector of the same length
C13_Witness ==
    /\ call.op = "cosineSimilarity"
    /\ call.a = <<1, 0>>
    /\ call.b = <<0, 0>>

----
\* The request path.

IsPrefix(s, t) == Len(s) <= Len(t) /\ SubSeq(t, 1, Len(s)) = s

\* t is s with exactly one item added at the end
OneAppended(s, t) == Len(t) = Len(s) + 1 /\ SubSeq(t, 1, Len(s)) = s

Last(s) == s[Len(s)]

\* handler h enters the given position in this step
Enters(h, pc) == req[h].pc # pc /\ req'[h].pc = pc

\* C14: a request whose lookup matched makes no upstream call and inserts
\* nothing; it appends exactly one ledger item with saved = true, the
\* request's text, and the matched entry's answer and source (LOCAL when the
\* source is empty), and answers with that answer and source CACHE.
C14_HitServesFromCache ==
    /\ [][\A h \in Handlers :
            Enters(h, "hit") =>
               LET m == findBestMatch(MockVectorDB, req'[h].vector)
               IN  m.ok /\ req'[h].match = m.entry]_vars
    /\ [][\A h \in Handlers :
            (req[h].pc = "hit" /\ req'[h] # req[h]) =>
               /\ req'[h].pc = "done"
               /\ req'[h].resp = [status |-> 200, answer |-> req[h].match.Answer,
                                  source |-> "CACHE"]
               /\ MockVectorDB' = MockVectorDB
               /\ OneAppended(ChatHistory, ChatHistory')
               /\ Last(ChatHistory').Saved
               /\ Last(ChatHistory').Question = req[h].text
               /\ Last(ChatHistory').Answer = req[h].match.Answer
               /\ Last(ChatHistory').Source =
                     (IF req[h].match.Source = "" THEN "LOCAL" ELSE req[h].match.Source)]_vars

\* C14 witness: a request has been answered from an entry merged from S3.
C14_Witness ==
    \E h \in Handlers :
       /\ req[h].pc = "done"
       /\ req[h].resp.source = "CACHE"
       /\ req[h].resp.answer = AnsB
       /\ Len(ChatHistory) = 1
       /\ ChatHistory[1].Saved
       /\ ChatHistory[1].Source = "S3"
       /\ ChatHistory[1].Answer = AnsB

\* C15: a request whose lookup missed and whose upstream call succeeds goes
\* lookup, upstream call, insert of exactly one entry (the request's vector
\* and text, the upstream answer, source LOCAL), append of exactly one ledger
\* item with saved = false; it answers with the upstream answer, source CLOUD.
C15_MissCallsInsertsAppends ==
    /\ [][\A h \in Handlers :
            Enters(h, "upstream") =>
               /\ Free(h)
               /\ ~findBestMatch(MockVectorDB, req'[h].vector).ok
               /\ UNCHANGED <<MockVectorDB, ChatHistory>>]_vars
    /\ [][\A h \in Handlers :
            Enters(h, "history") =>
               /\ req[h].pc = "upstream"
               /\ req'[h].answer \in UpstreamAnswers
               /\ MockVectorDB' =
                     Append(MockVectorDB,
                            [Vector |-> req[h].vector, Answer |-> req'[h].answer,
                             Question |-> req[h].text, CreatedAt |-> now,
                             Similarity |-> ZeroScore, Source |-> "LOCAL"])
               /\ ChatHistory' = ChatHistory]_vars
    /\ [][\A h \in Handlers :
            (req[h].pc = "history" /\ req'[h] # req[h]) =>
               /\ req'[h].pc = "done"
               /\ req'[h].resp = [status |-> 200, answer |-> req[h].answer,
                                  source |-> "CLOUD"]
               /\ MockVectorDB' = MockVectorDB
               /\ OneAppended(ChatHistory, ChatHistory')
               /\ ~Last(ChatHistory').Saved
               /\ Last(ChatHistory').Question = req[h].text
               /\ Last(ChatHistory').Answer = req[h].answer]_vars

\* C15 witness: a missed request has been answered from upstream; the store
\* holds its entry and the ledger its item.
C15_Witness ==
    \E h \in Handlers :
       /\ req[h].pc = "done"
       /\ req[h].resp.source = "CLOUD"
       /\ req[h].resp.answer = AnsA
       /\ Len(ChatHistory) = 1
       /\ ~ChatHistory[1].Saved
       /\ ChatHistory[1].Question = X
       /\ Len(MockVectorDB) > 0
       /\ Last(MockVectorDB).Source = "LOCAL"
       /\ Last(MockVectorDB).Question = X
       /\ Last(MockVectorDB).Answer = AnsA

\* C16: a request whose upstream call fails, times out or returns an empty
\* answer ends with the failure status 502, and none of its steps changes
\* the store or the ledger; an answer that is inserted is never empty.
C16_UpstreamFailureChangesNothing ==
    /\ [][\A h \in Handlers :
            (req[h].pc = "upstream" /\ req'[h].pc = "done") =>
               /\ req'[h].resp = [status |-> 502, answer |-> <<>>, source |-> ""]
               /\ UNCHANGED <<MockVectorDB, ChatHistory>>]_vars
    /\ [][\A h \in Handlers :
            Enters(h, "upstream") => UNCHANGED <<MockVectorDB, ChatHistory>>]_vars
    /\ [][\A h \in Handlers :
            (req[h].pc = "upstream" /\ req'[h].pc \notin {"upstream", "done"}) =>
               TrimSpace(req'[h].answer) # <<>>]_vars

\* C16 witness: a request that missed in a store of merged entries has ended
\* with 502; the ledger is empty and the store holds no local entry.
C16_Witness ==
    \E h \in Handlers :
       /\ req[h].pc = "done"
       /\ req[h].resp.status = 502
       /\ ChatHistory = <<>>
       /\ Len(MockVectorDB) > 0
       /\ \A i \in DOMAIN MockVectorDB : MockVectorDB[i].Source = "S3"

\* C17: the store changes only by the insert of a missed request, which adds
\* one entry tagged LOCAL whose answer is the non-empty upstream answer, or by
\* the merge of a download, which adds entries tagged S3 whose content is a
\* record of the decoded remote body.
C17_OnlyTwoInsertPaths ==
    /\ [][(syncPc # "dl_merge" /\ syncPc' = "dl_merge") =>
            remoteEntries' = Unmarshal(remote)]_vars
    /\ [][MockVectorDB' # MockVectorDB =>
            \/ \E h \in Handlers :
                  /\ req[h].pc = "upstream" /\ req'[h].pc = "history"
                  /\ OneAppended(MockVectorDB, MockVectorDB')
                  /\ Last(MockVectorDB').Source = "LOCAL"
                  /\ Last(MockVectorDB').Answer = req'[h].answer
                  /\ TrimSpace(req'[h].answer) # <<>>
            \/ /\ MergeStep
               /\ dlOutcome' = "merged"
               /\ IsPrefix(MockVectorDB, MockVectorDB')
               /\ \A i \in (Len(MockVectorDB) + 1)..Len(MockVectorDB') :
                     /\ MockVectorDB'[i].Source = "S3"
                     /\ \E k \in DOMAIN remoteEntries :
                           MockVectorDB'[i] = [remoteEntries[k] EXCEPT !.Source = "S3"]]_vars

\* C17 witness: the store holds an entry of each path.
C17_Witness ==
    /\ Len(MockVectorDB) > 2
    /\ MockVectorDB[1].Source = "S3"
    /\ MockVectorDB[1].Question = Y
    /\ Last(MockVectorDB).Source = "LOCAL"
    /\ Last(MockVectorDB).Answer = AnsA

----
\* The ledger, under SpecLocal.

\* C19: the ledger only grows: every step leaves it as it is or adds exactly
\* one item at its end, the items before it unchanged.
C19_LedgerOnlyGrows ==
    [][ChatHistory' = ChatHistory \/ OneAppended(ChatHistory, ChatHistory')]_vars

\* C19 witness: three requests have been recorded, a miss first, then a hit
\* on its entry, then another miss.
C19_Witness ==
    /\ Len(ChatHistory) = 3
    /\ ~ChatHistory[1].Saved
    /\ ChatHistory[2].Saved
    /\ ChatHistory[2].Answer = ChatHistory[1].Answer
    /\ ~ChatHistory[3].Saved

\* s in reverse order
Reverse(s) == [i \in 1..Len(s) |-> s[Len(s) + 1 - i]]

\* handler h, the first free one, takes the request received in this step
Takes(h) == served' # served /\ Free(h) /\ \A g \in Handlers : g < h => ~Free(g)

\* C20: the response of handleHistory is the ledger of the moment of the
\* call in reverse order, the most recently appended item first; the call
\* changes neither the ledger nor the store.
C20_HistoryIsReversedLedger ==
    [][\A h \in Handlers :
         (Takes(h) /\ req'[h].route = "/history") =>
            /\ req'[h].resp.status = 200
            /\ req'[h].history = Reverse(ChatHistory)
            /\ UNCHANGED <<ChatHistory, MockVectorDB>>]_vars

\* C20 witness: a response lists a hit before the miss that preceded it.
C20_Witness ==
    \E h \in Handlers :
       /\ req[h].route = "/history"
       /\ Len(ChatHistory) = 2
       /\ ~ChatHistory[1].Saved
       /\ ChatHistory[2].Saved
       /\ req[h].history = <<ChatHistory[2], ChatHistory[1]>>

----
\* handleCacheStats, under SpecStats.

\* handler h holds a response of handleCacheStats
StatsDone(h) == req[h].pc = "done" /\ req[h].route = "/cache-stats"

\* the indices of the saved items of a ledger
SavedItems(history) == { i \in DOMAIN history : history[i].Saved }

\* the sum of Tokens over the items of history with an index in set
RECURSIVE SumTokens(_, _)
SumTokens(history, set) ==
    IF set = {} THEN 0
    ELSE LET i == CHOOSE i \in set : TRUE
         IN  history[i].Tokens + SumTokens(history, set \ {i})

\* C21: in a response of handleCacheStats, cacheHits is the number of saved
\* items of the ledger, s3CacheHits the number of those with source S3,
\* localCacheHits the number of the other saved items, the two add up to
\* cacheHits, and estimatedTokensSaved is the sum of the saved items' tokens.
C21_MetricsCountSavedItems ==
    \A h \in Handlers :
       StatsDone(h) =>
          LET m == req[h].stats.Metrics
              saved == SavedItems(ChatHistory)
          IN  /\ m.CacheHits = Cardinality(saved)
              /\ m.S3CacheHits =
                    Cardinality({ i \in saved : ChatHistory[i].Source = "S3" })
              /\ m.LocalCacheHits =
                    Cardinality({ i \in saved : ChatHistory[i].Source # "S3" })
              /\ m.CacheHits = m.LocalCacheHits + m.S3CacheHits
              /\ m.EstimatedTokensSaved = SumTokens(ChatHistory, saved)

\* C21 witness: a response over a ledger with a miss, a local hit and an S3 hit
C21_Witness ==
    \E h \in Handlers :
       /\ StatsDone(h)
       /\ Len(ChatHistory) = 3
       /\ ~ChatHistory[1].Saved
       /\ req[h].stats.Metrics.CacheHits = 2
       /\ req[h].stats.Metrics.LocalCacheHits = 1
       /\ req[h].stats.Metrics.S3CacheHits = 1
       /\ req[h].stats.Metrics.EstimatedTokensSaved > 0

\* C22: the two preview lists of a response of handleCacheStats are capped:
\* whatever the cap, it is below the size of some store and ledger, so the
\* preview of a store of MaxStoreLen entries has fewer than MaxStoreLen
\* views, and the preview of a ledger of MaxLedgerLen items fewer than
\* MaxLedgerLen.
C22_PreviewsBounded ==
    \A h \in Handlers :
       StatsDone(h) =>
          /\ Len(MockVectorDB) = MaxStoreLen =>
                Len(req[h].stats.LocalRamCache) < MaxStoreLen
          /\ Len(ChatHistory) = MaxLedgerLen =>
                Len(req[h].stats.S3CacheUsed) < MaxLedgerLen

----
\* The savings on the ledger.

\* C23: every unsaved item of the ledger has zero tokens, energy and CO2;
\* every saved item has estimateTokens(question) + estimateTokens(answer)
\* tokens, at least 2, and energy and CO2 above zero.
C23_SavingsOnlyOnSavedItems ==
    \A i \in DOMAIN ChatHistory :
       LET item == ChatHistory[i]
       IN  IF item.Saved
           THEN /\ item.Tokens = estimateTokens(item.Question) + estimateTokens(item.Answer)
                /\ item.Tokens >= 2
                /\ item.EnergyWh > 0
                /\ item.CO2g > 0
           ELSE item.Tokens = 0 /\ item.EnergyWh = 0 /\ item.CO2g = 0

\* C23 witness: a hit on a five-character answer is recorded with 3 tokens
C23_Witness ==
    /\ Len(ChatHistory) = 1
    /\ ChatHistory[1].Saved
    /\ ChatHistory[1].Question = X
    /\ ChatHistory[1].Answer = AnsB
    /\ ChatHistory[1].Tokens = 3

----
\* The savings accountant, under SpecAccount.

\* the least k with 4 * k >= n
CeilQuarter(n) == CHOOSE k \in 0..n : 4 * k >= n /\ (k = 0 \/ 4 * (k - 1) < n)

\* C24: estimateTokens of a text of n characters is max(1, ceil(n / 4)): 1
\* for the empty text and for 4 characters, 2 for 5, never below 1, and never
\* below the estimate of a shorter text.
C24_TokensAreCeilOfQuarter ==
    call.op = "estimateTokens" =>
       LET n == Len(call.text)
       IN  /\ call.tokens = (IF CeilQuarter(n) < 1 THEN 1 ELSE CeilQuarter(n))
           /\ call.tokens >= 1
           /\ n = 0 => call.tokens = 1
           /\ n = 4 => call.tokens = 1
           /\ n = 5 => call.tokens = 2
           /\ \A m \in 0..n : estimateTokens(SubSeq(call.text, 1, m)) <= call.tokens

\* C24 witness: a text of five characters, four of them white space
C24_Witness ==
    /\ call.op = "estimateTokens"
    /\ call.text = <<" ", "x", " ", " ", " ">>
    /\ call.tokens = 2

\* C25: estimateSavings multiplies the token count by the constant of the
\* model when the model has one, and by the default constant otherwise; the
\* CO2 is the energy times the grid constant; both are above zero.
C25_SavingsUseModelOrDefault ==
    call.op = "estimateSavings" =>
       LET kWhPer1K == IF call.model = FlashLite THEN 20
                       ELSE IF call.model = Flash THEN 35
                       ELSE estimatedKWhPer1KTokens
       IN  /\ call.tokens = estimateTokens(call.text) + estimateTokens(call.answer)
           /\ call.energyWh = call.tokens * kWhPer1K
           /\ call.co2g = call.energyWh * gridCO2gPerKWh
           /\ call.energyWh > 0
           /\ call.co2g > 0

\* C25 witness: an unknown model is charged the default constant
C25_Witness ==
    /\ call.op = "estimateSavings"
    /\ call.model = <<"unknown-model">>
    /\ call.tokens = 3
    /\ call.energyWh = 3 * estimatedKWhPer1KTokens

----
\* The model identifier, under SpecLocal.

AllowList == { FlashLite, Flash }

\* C26: the model identifier a handler passes to callGemini and records in
\* the ledger is in the allow-list: it is the requested identifier, trimmed,
\* when that is in the list, and the default model otherwise.
C26_ModelIsAllowed ==
    /\ \A i \in DOMAIN ChatHistory : ChatHistory[i].Model \in AllowList
    /\ \A h \in Handlers :
          req[h].pc \in {"hit", "upstream", "history"} =>
             /\ req[h].modelName \in AllowList
             /\ req[h].modelName =
                   (IF TrimSpace(req[h].model) \in AllowList
                    THEN TrimSpace(req[h].model) ELSE FlashLite)

\* C26 witness: a request that named an unknown model is about to call
\* upstream with the default, after a request that named an allowed model
\* within white space was recorded with that model.
C26_Witness ==
    \E h \in Handlers :
       /\ req[h].pc = "upstream"
       /\ req[h].model = <<"unknown-model">>
       /\ req[h].modelName = FlashLite
       /\ Len(ChatHistory) > 0
       /\ ChatHistory[1].Model = Flash

----
\* The stored similarity.

\* C27: no entry of the store carries a similarity: the Similarity of every
\* stored entry is 0, whether a request inserted it or a merge did.
C27_NoStoredSimilarity ==
    \A i \in DOMAIN MockVectorDB : MockVectorDB[i].Similarity = ZeroScore

----
\* S3 disabled.

\* C28: while initS3Client has not succeeded, and for ever once it has
\* failed, no download and no upload runs: the sync task is at its start or
\* disabled, the status is the initial one (not uploading, both timestamps
\* absent), nothing was fetched, snapshot or put, and every entry of the
\* store was inserted by a request.
C28_DisabledSyncNeverRuns ==
    ~s3Enabled =>
       /\ syncPc \in {"init", "disabled"}
       /\ ~s3Uploading
       /\ ~hasLastS3Upload /\ lastS3UploadAt = ZeroTime
       /\ ~hasLastS3Sync /\ lastS3DownloadAt = ZeroTime
       /\ dlOutcome = "none"
       /\ ~putOk
       /\ remoteEntries = <<>>
       /\ payload = <<>>
       /\ \A i \in DOMAIN MockVectorDB : MockVectorDB[i].Source = "LOCAL"

\* C28 witness: with S3 disabled and an object written by someone else in
\* the bucket, a request has missed, called upstream, inserted and been
\* recorded.
C28_Witness ==
    /\ syncPc = "disabled"
    /\ remote # Absent
    /\ Len(MockVectorDB) = 1
    /\ Len(ChatHistory) = 1
    /\ \E h \in Handlers : req[h].pc = "done" /\ req[h].resp.source = "CLOUD"

----
\* Locking

\* goroutine t is writing structure x; goroutine t is reading or writing it
Writes(t, x) == InstrOf(t).op = "write" /\ x \in InstrOf(t).what
Touches(t, x) == InstrOf(t).op \in {"read", "write"} /\ x \in InstrOf(t).what

\* goroutine t holds mutex m; goroutine t is blocked in Lock or RLock of dbMutex
Holds(t, m) == t \in m.writers \cup m.readers
BlockedOnDb(t) ==
    /\ InstrOf(t).mu = "db"
    /\ \/ InstrOf(t).op = "Lock" /\ dbMutex.writers \cup dbMutex.readers # {}
       \/ InstrOf(t).op = "RLock" /\ dbMutex.writers # {}

\* two goroutines read the store or the ledger at the same time
ReadsOverlap ==
    \E t, u \in LockTasks : \E x \in {"store", "ledger"} :
        /\ t # u
        /\ Touches(t, x) /\ InstrOf(t).op = "read"
        /\ Touches(u, x) /\ InstrOf(u).op = "read"

\* C29: in every reachable state, while one goroutine is inside an exclusive
\* operation on the store or on the ledger (the insert of a request, the merge
\* of the remote entries, an append to the ledger), no other goroutine is
\* inside any operation on the same structure, be it another write or a shared
\* read (the lookup, the history, the copy of the statistics, the snapshot of
\* the upload, the tick's check of a non-empty store).
C29_WritesAreExclusive ==
    \A t, u \in LockTasks : \A x \in {"store", "ledger"} :
        t # u /\ Writes(t, x) => ~Touches(u, x)

\* the merge is in progress while one handler is blocked at its insert and the
\* other at a shared read
C29_Witness ==
    /\ Writes(SyncTask, "store")
    /\ \E h, g \in Handlers :
          /\ InstrOf(h).op = "Lock" /\ BlockedOnDb(h)
          /\ InstrOf(g).op = "RLock" /\ BlockedOnDb(g)

\* the calls that leave the process: the remote store and the upstream model
RemoteCalls == {"GetObject", "PutObject", "callGemini"}
InFlight(t) == InstrOf(t).op = "call" /\ InstrOf(t).what \cap RemoteCalls # {}

\* C30: in every reachable state in which a get or a put of the remote store
\* or a generation call is in flight, the goroutine making the call holds
\* neither dbMutex nor statusMutex.
C30_NoLockAcrossRemoteCall ==
    \A t \in LockTasks :
        InFlight(t) => ~Holds(t, dbMutex) /\ ~Holds(t, statusMutex)

\* the put of the upload and a generation call are in flight while another
\* handler holds dbMutex
C30_Witness ==
    /\ syncPc = "up_put"
    /\ \E h, g \in Handlers :
          /\ req[h].pc = "gemini"
          /\ Holds(g, dbMutex)

----
\* Input and output under the lock of the store.

\* C31: no goroutine performs input or output (a call of the remote store, of
\* the upstream model, or the write of a response to the client) while it
\* holds dbMutex.
C31_NoIoUnderStoreLock ==
    \A t \in LockTasks : InstrOf(t).op = "call" => ~Holds(t, dbMutex)

----
\* The sync status.

\* a step of downloadAndMergeFromS3 or of uploadToS3
SyncStep == syncPc \in DownloadPcs \cup UploadPcs /\ syncPc' # syncPc

\* handler h takes a step of handleCacheStats
StatsStep(h) == req'[h] # req[h] /\ req'[h].route = "/cache-stats"

\* C32: s3Uploading, the time of the last upload and the time of the last
\* download change only in steps of downloadAndMergeFromS3 and of uploadToS3;
\* no step of a request (the lookup of /chat and what follows it, /history,
\* /cache-stats) changes any of them, and no step of /cache-stats changes the
\* store or the ledger.
C32_StatusChangedOnlyBySync ==
    [][ /\ statusVars' # statusVars => SyncStep /\ req' = req
        /\ \A h \in Handlers :
              StatsStep(h) => UNCHANGED <<MockVectorDB, ChatHistory, statusVars>> ]_vars

\* /cache-stats has answered during an upload, after a download was recorded
C32_Witness ==
    /\ s3Uploading
    /\ hasLastS3Sync
    /\ \E h \in Handlers :
          /\ StatsDone(h)
          /\ req[h].stats.Uploading
          /\ req[h].stats.LastDownloadAt.present
          /\ MockVectorDB # <<>>

----
\* The order of the sync operations.

\* goroutine t is inside downloadAndMergeFromS3 or inside uploadToS3
InSyncOperation(t) == PcOf(t) \in DOMAIN downloadProgram \cup DOMAIN uploadProgram

\* main is past its call of downloadAndMergeFromS3, or has skipped it with
\* S3 disabled
StartupDownloadOver == mainPc \in {"main_start_sync", "main_listen", "main_serve"}

\* C33: the sync operations of one process never overlap: main and the sync
\* goroutine are never both inside a download or an upload (and the one sync
\* goroutine runs its download and its upload one after the other); and
\* while the ticker loop is inside an operation of a tick, or a handler is
\* serving a request, main's start-up download is over.
C33_SyncOperationsInSequence ==
    /\ ~(InSyncOperation(MainTask) /\ InSyncOperation(SyncTask))
    /\ (syncPc \notin {"off", "wait"} \/ \E h \in Handlers : req[h].pc # "idle")
          => StartupDownloadOver

\* the upload of a tick is putting the object while a handler serves a request
C33_Witness ==
    /\ s3Enabled
    /\ syncPc = "up_put"
    /\ mainPc = "main_serve"
    /\ \E h \in Handlers : req[h].pc = "chat_lookup"

----
\* Conflicts in the merge.

\* the first record of entries whose trimmed question is q
FirstAsking(entries, q) ==
    CHOOSE i \in DOMAIN entries :
        /\ TrimSpace(entries[i].Question) = q
        /\ \A j \in 1..(i - 1) : TrimSpace(entries[j].Question) # q

\* C34: the merge is first-seen-wins.  Every entry the store held stays as it
\* was (answer, vector and source), and a record whose trimmed question an
\* entry of the store asks adds nothing, even if its answer differs; of the
\* records of one payload that share a trimmed question only the first is
\* inserted.
C34_MergeFirstSeenWins ==
    [][MergeStep =>
         /\ Len(MockVectorDB') >= Len(MockVectorDB)
         /\ \A k \in DOMAIN MockVectorDB : MockVectorDB'[k] = MockVectorDB[k]
         /\ \A i \in DOMAIN remoteEntries :
               QuestionCount(MockVectorDB, TrimSpace(remoteEntries[i].Question)) > 0
                  => QuestionCount(MockVectorDB', TrimSpace(remoteEntries[i].Question))
                        = QuestionCount(MockVectorDB, TrimSpace(remoteEntries[i].Question))
         /\ \A k \in (Len(MockVectorDB) + 1)..Len(MockVectorDB') :
               LET q == TrimSpace(MockVectorDB'[k].Question)
               IN  /\ QuestionCount(MockVectorDB', q) = 1
                   /\ MockVectorDB'[k] =
                         [remoteEntries[FirstAsking(remoteEntries, q)]
                            EXCEPT !.Source = "S3"]]_vars

\* the foreign body has been merged into a store that held the LOCAL answer
\* a to x: x still has answer a though the body answers it b, and y has the
\* answer b of the first of the two records that ask it
C34_Witness ==
    /\ dlOutcome = "merged"
    /\ lastMerged = <<Unmarshal(Foreign)>>
    /\ \E i \in DOMAIN MockVectorDB :
          /\ MockVectorDB[i].Question = X
          /\ MockVectorDB[i].Answer = AnsA
          /\ MockVectorDB[i].Source = cacheSourceLocal
    /\ \A i \in DOMAIN MockVectorDB :
          TrimSpace(MockVectorDB[i].Question) = X => MockVectorDB[i].Answer # AnsB
    /\ \A i \in DOMAIN MockVectorDB :
          TrimSpace(MockVectorDB[i].Question) = Y => MockVectorDB[i].Answer = AnsB
    /\ QuestionCount(MockVectorDB, Y) = 1

----
\* Deadlock.

\* goroutine t is in a call of Lock or RLock
AtLock(t) == InstrOf(t).op \in {"Lock", "RLock"}

\* C35: no goroutine waits forever for dbMutex or statusMutex: every call of
\* Lock or RLock returns; and no goroutine calls Lock or RLock of dbMutex
\* while it holds statusMutex, so that statusMutex is taken alone or inside
\* dbMutex only.
C35_NoTaskWaitsForever ==
    /\ [](\A t \in LockTasks :
            AtLock(t) /\ InstrOf(t).mu = "db" => ~Holds(t, statusMutex))
    /\ \A t \in LockTasks : AtLock(t) ~> ~AtLock(t)

\* the download holds dbMutex and waits for statusMutex, which a handler of
\* /cache-stats holds, while another handler waits for dbMutex
C35_Witness ==
    /\ syncPc = "dl_mark_lock"
    /\ Holds(SyncTask, dbMutex)
    /\ \E h, g \in Handlers :
          /\ Holds(h, statusMutex)
          /\ AtLock(g) /\ InstrOf(g).mu = "db"

----
\* Concurrent misses.

\* C36: the store never holds two LOCAL entries with the same question text
\* that were inserted for the same vector (the vector being a fixed non-zero
\* function of the text): of two requests for one text the second hits the
\* entry of the first or waits for it, so the upstream is called once.
C36_OneLocalEntryPerText ==
    \A i, j \in DOMAIN MockVectorDB :
        /\ i < j
        /\ MockVectorDB[i].Source = cacheSourceLocal
        /\ MockVectorDB[j].Source = cacheSourceLocal
        /\ MockVectorDB[i].Question = MockVectorDB[j].Question
        => \/ MockVectorDB[i].Vector # MockVectorDB[j].Vector
           \/ AllZero(MockVectorDB[i].Vector)

----
\* The only writer.

\* the trimmed non-empty questions of the object in the bucket
RemoteQuestions(r) == IF r.kind = "json" THEN TrimmedQuestions(Unmarshal(r)) ELSE {}

\* C37: with this process as the only writer of the object, no upload loses
\* remote data: every trimmed non-empty question of the object before a
\* PutObject is a question of the object after it, also when a download of
\* the same or of an earlier tick failed.
C37_UploadKeepsRemoteQuestions ==
    [][remote' # remote => RemoteQuestions(remote) \subseteq RemoteQuestions(remote')]_vars

----
\* The round trip of the store through the object.

\* the records a download decodes from the object an upload of db wrote
RoundTrip(db) == Unmarshal(MarshalIndent(db))

\* C38: a merge of exactly the snapshot that a successful upload of the store
\* wrote leaves the store as it is: no entry is added and no LOCAL entry is
\* tagged S3, also when the store holds two entries with one trimmed question.
C38_RoundTripKeepsStore ==
    [][(MergeStep /\ putOk /\ remoteEntries = RoundTrip(MockVectorDB))
          => MockVectorDB' = MockVectorDB]_vars

\* the snapshot of a store with two LOCAL entries for x has been uploaded,
\* downloaded and merged
C38_Witness ==
    /\ dlOutcome = "merged"
    /\ putOk
    /\ lastMerged = <<RoundTrip(MockVectorDB)>>
    /\ Len(MockVectorDB) = 2
    /\ QuestionCount(MockVectorDB, X) = 2
    /\ \A i \in DOMAIN MockVectorDB : MockVectorDB[i].Source = cacheSourceLocal

----
\* Blank questions.

\* C39: every entry of the store has a question that is not empty after
\* trimming white space.  handleChat answers a request whose text is blank or
\* whose vector is empty with 400 before the lookup, so that no such request
\* reaches the upstream call, the insert or the ledger; the merge skips the
\* records whose question is blank.
C39_NoBlankQuestionStored ==
    /\ \A i \in DOMAIN MockVectorDB : TrimSpace(MockVectorDB[i].Question) # <<>>
    /\ \A i \in DOMAIN ChatHistory : TrimSpace(ChatHistory[i].Question) # <<>>
    /\ \A h \in Handlers :
          req[h].pc \in {"hit", "upstream", "history"}
             => TrimSpace(req[h].text) # <<>> /\ req[h].vector # <<>>

\* the foreign body, which holds a record with a blank question, has been
\* merged, and a request has been answered with 400
C39_Witness ==
    /\ dlOutcome = "merged"
    /\ lastMerged = <<Unmarshal(Foreign)>>
    /\ \E i \in DOMAIN lastMerged[1] : TrimSpace(lastMerged[1][i].Question) = <<>>
    /\ Len(MockVectorDB) = 2
    /\ ChatHistory = <<>>
    /\ \E h \in Handlers : req[h].pc = "done" /\ req[h].resp.status = 400

----
\* Two processes on one key.

\* the store of process k holds an entry for question q
PairHolds(k, q) == q \in TrimmedQuestions(instances[k].db)

\* process k is inside a tick
PairInTick(k) == instances[k].pc # "wait"

\* C40 as stated: with two processes on one key, no remote failure and the
\* ticks of both running again and again, every entry inserted at one process
\* is eventually present, by trimmed question, in the store of the other.
C40_InsertedEntriesPropagate ==
    \A k \in Instances : \A q \in {X, Y} :
        PairHolds(k, q) ~> (\A j \in Instances : PairHolds(j, q))

\* C40 amended: the same, for the executions in which the ticks of the two
\* processes never overlap.
C40_PropagateWhenTicksApart ==
    [](~(PairInTick(1) /\ PairInTick(2)))
       => (\A k \in Instances : \A q \in {X, Y} :
              PairHolds(k, q) ~> (\A j \in Instances : PairHolds(j, q)))

\* each process holds its own LOCAL entry and the entry of the other, merged
C40_Witness ==
    /\ \A k \in Instances : Len(instances[k].db) = 2
    /\ \A k \in Instances :
          /\ instances[k].db[1].Question = PairText(k)
          /\ instances[k].db[1].Source = cacheSourceLocal
          /\ instances[k].db[2].Source = cacheSourceS3
          /\ PairHolds(k, X) /\ PairHolds(k, Y)

====
